---------------------------- MODULE Spec2Model ----------------------------
(***************************************************************************)
(* A model of the jswt compiler core:                                      *)
(*   - the binary serializer        (src/src/wasm/section.rs, module.rs)   *)
(*   - the AST lowering pass        (src/jswt-ast-lowering/src/lib.rs)     *)
(*   - the code generator           (src/jswt-codegen/src/lib.rs)          *)
(* Each subsystem has its own variables and its own specification; the     *)
(* variables of the other subsystems are left unchanged by its actions.    *)
(***************************************************************************)
EXTENDS Integers, Sequences, FiniteSets, TLC

VARIABLES
    \* --- serializer: one FunctionType ---
    ft,             \* the FunctionType value being serialized
    ft_out,         \* the bytes FunctionType::serialize returned
    ft_pc,          \* "input" | "done"
    \* --- serializer: sections and module ---
    functions,      \* the Vec<FunctionType> the sections are built from
    segments,       \* Module.segments: Vec<Section>
    sections_out,   \* the bytes each section's serialize returned, in order
    out,            \* the bytes Module::serialize returned
    ser_pc,         \* "build" | "done"
    \* --- AST lowering ---
    ast,            \* the expression tree held by the Ast
    low_pc,         \* "parsed" | "lowered"
    \* --- code generator ---
    module_types, module_functions, module_imports, module_globals, module_exports,
    scopes,         \* CodeGenerator.scopes: the instruction-scope stack
    wast_symbols,   \* CodeGenerator.wast_symbols: stack of scopes, each an insertion-ordered list
    semantic_depth, \* depth of CodeGenerator.semantic_symbols
    label_counter,  \* CodeGenerator.label_counter
    ctx,            \* the visitor's call stack: one frame per open function / if / while visit
    visited,        \* number of AST nodes visited so far (bounds the run)
    declared,       \* the function declarations visited so far, in visiting order
    gen_pc          \* "new" | "running" | "done" | "panicked"

ser_vars == <<ft, ft_out, ft_pc, functions, segments, sections_out, out, ser_pc>>
low_vars == <<ast, low_pc>>
gen_vars == <<module_types, module_functions, module_imports, module_globals,
              module_exports, scopes, wast_symbols, semantic_depth, label_counter,
              ctx, visited, declared, gen_pc>>
vars == <<ser_vars, low_vars, gen_vars>>

(***************************************************************************)
(* Bounds                                                                  *)
(***************************************************************************)
MaxParams == 3      \* parameters of the FunctionType given to FunctionType::serialize
MaxFuncs == 2       \* functions in the list the sections are built from
MaxSections == 4    \* sections in Module.segments
MaxExprDepth == 2   \* nesting depth of the expression handed to the lowering pass
MaxVisited == 4     \* statements and declarations of the program handed to the code generator
MaxDecls == 3       \* function declarations of a program made of declarations only
MaxExprStmts == 3   \* statements and declarations of a program of expression statements

(***************************************************************************)
(* Generic helpers                                                         *)
(***************************************************************************)
\* Mutant: the cast saturates at 255
AsU8Saturating(x) == IF x > 255 THEN 255 ELSE x

\* u8 truncation of a usize: `x as u8`
AsU8(x) == x % 256

\* Iterator::flatten over a sequence of byte vectors
RECURSIVE Flatten(_)
Flatten(ss) ==
    IF ss = <<>> THEN <<>>
    ELSE IF Len(ss) = 1 THEN ss[1]
    ELSE LET half == Len(ss) \div 2
         IN  Flatten(SubSeq(ss, 1, half)) \o Flatten(SubSeq(ss, half + 1, Len(ss)))

\* All sequences over S of length at most n
RECURSIVE SeqsUpTo(_, _)
SeqsUpTo(S, n) ==
    IF n = 0 THEN {<<>>}
    ELSE LET shorter == SeqsUpTo(S, n - 1)
         IN  shorter \cup {Append(s, x) : s \in {t \in shorter : Len(t) = n - 1}, x \in S}

(***************************************************************************)
(* Binary serializer: src/src/wasm/section.rs, src/src/wasm/module.rs      *)
(***************************************************************************)
ValTypes == {"I32", "F32", "Void"}

\* impl From<&ValType> for u8
ValTypeByte(ty) ==
    CASE ty = "I32" -> 127
      [] ty = "F32" -> 125
      [] ty = "Void" -> 0

\* &str names as their UTF-8 bytes: "", "main", "test"
NameEmpty == <<>>
NameMain == <<109, 97, 105, 110>>
NameTest == <<116, 101, 115, 116>>
Names == {NameEmpty, NameMain, NameTest}

\* struct FunctionType { name, export, params, ret }
FunctionTypes(maxParams) ==
    [name : Names, export : BOOLEAN, params : SeqsUpTo(ValTypes, maxParams), ret : ValTypes]

\* Mutant: the Void return is written like any other return type
FunctionTypeSerializeNoVoidCase(f) ==
    <<96, AsU8(Len(f.params))>> \o [i \in 1..Len(f.params) |-> ValTypeByte(f.params[i])]
        \o <<1, ValTypeByte(f.ret)>>

\* impl Serialize for FunctionType
FunctionTypeSerialize(f) ==
    LET params == [i \in 1..Len(f.params) |-> ValTypeByte(f.params[i])]
        res == <<96, AsU8(Len(f.params))>> \o params
    IN  IF f.ret = "Void"
        THEN res \o <<0>>
        ELSE res \o <<1, ValTypeByte(f.ret)>>

\* Mutant: the size byte leaves out the count byte
TypeSectionSerializeSizeOff(fs) ==
    LET types == Flatten([i \in 1..Len(fs) |-> FunctionTypeSerialize(fs[i])])
    IN  <<1, AsU8(Len(types)), AsU8(Len(fs))>> \o types

\* impl Serialize for TypeSection
TypeSectionSerialize(fs) ==
    LET types == Flatten([i \in 1..Len(fs) |-> FunctionTypeSerialize(fs[i])])
    IN  <<1, AsU8(Len(types) + 1), AsU8(Len(fs))>> \o types

\* Mutant: the indexes are 1-based
FunctionSectionSerializeOneBased(fs) ==
    LET indexes == [i \in 1..Len(fs) |-> AsU8(i)]
    IN  <<3, AsU8(Len(indexes) + 1), AsU8(Len(fs))>> \o indexes

\* impl Serialize for FunctionSection
FunctionSectionSerialize(fs) ==
    LET indexes == [i \in 1..Len(fs) |-> AsU8(i - 1)]
    IN  <<3, AsU8(Len(indexes) + 1), AsU8(Len(fs))>> \o indexes

\* Mutant: the function-export tag is left out
ExportDescriptionNoTag(index, function) ==
    <<AsU8(Len(function.name))>> \o function.name \o <<AsU8(index)>>

\* ExportSection::export_description((index, function))
ExportDescription(index, function) ==
    <<AsU8(Len(function.name))>> \o function.name \o <<0, AsU8(index)>>

\* Mutant: only the functions marked export are written
ExportSectionSerializeMarkedOnly(fs) ==
    LET marked == SelectSeq(fs, LAMBDA f : f.export)
        indexes == Flatten([i \in 1..Len(marked) |-> ExportDescription(i - 1, marked[i])])
    IN  <<7, AsU8(Len(indexes) + 1), AsU8(Len(marked))>> \o indexes

\* impl Serialize for ExportSection
ExportSectionSerialize(fs) ==
    LET exports == Len(fs)
        indexes == Flatten([i \in 1..Len(fs) |-> ExportDescription(i - 1, fs[i])])
    IN  <<7, AsU8(Len(indexes) + 1), AsU8(exports)>> \o indexes

\* impl Serialize for CodeSection
CodeSectionSerialize == <<10, 7, 1, 5, 0, 65, 42, 15, 11>>

SectionKinds == {"Type", "Function", "Export", "Code"}

\* Section::type_section / function_section / export_section / code_section
NewSection(kind, fs) ==
    IF kind = "Code" THEN [kind |-> kind, functions |-> <<>>]
    ELSE [kind |-> kind, functions |-> fs]

\* impl Serialize for Section
SectionSerialize(s) ==
    CASE s.kind = "Type" -> TypeSectionSerialize(s.functions)
      [] s.kind = "Function" -> FunctionSectionSerialize(s.functions)
      [] s.kind = "Export" -> ExportSectionSerialize(s.functions)
      [] s.kind = "Code" -> CodeSectionSerialize

MODULE_HEADER == <<0, 97, 115, 109>>
MODULE_VERSION == <<1, 0, 0, 0>>

\* Mutant: the version is written before the magic number
ModuleSerializeVersionFirst(segs) ==
    LET sections == Flatten([i \in 1..Len(segs) |-> SectionSerialize(segs[i])])
    IN  MODULE_VERSION \o MODULE_HEADER \o sections

\* impl Serialize for Module
ModuleSerialize(segs) ==
    LET sections == Flatten([i \in 1..Len(segs) |-> SectionSerialize(segs[i])])
    IN  MODULE_HEADER \o MODULE_VERSION \o sections


(***************************************************************************)
(* Serializer state machines                                               *)
(***************************************************************************)
\* The signatures the serializer's unit tests build their FunctionType values from
TestSignatures ==
    { [params |-> <<"I32", "I32">>, ret |-> "I32"],
      [params |-> <<>>, ret |-> "Void"] }

\* FunctionType values the sections are built from
SectionFunctions ==
    { [name |-> n, export |-> e, params |-> s.params, ret |-> s.ret] :
        n \in {NameEmpty, NameMain}, e \in BOOLEAN, s \in TestSignatures }

NoFunctionType == [name |-> NameEmpty, export |-> FALSE, params |-> <<>>, ret |-> "Void"]

FtIdle == ft = NoFunctionType /\ ft_out = <<>> /\ ft_pc = "idle"
SerIdle == functions = <<>> /\ segments = <<>> /\ sections_out = <<>> /\ out = <<>>
           /\ ser_pc = "idle"
LowIdle == ast = [kind |-> "None"] /\ low_pc = "idle"
GenIdle ==
    /\ module_types = <<>> /\ module_functions = <<>> /\ module_imports = <<>>
    /\ module_globals = <<>> /\ module_exports = <<>>
    /\ scopes = <<>> /\ wast_symbols = <<>> /\ semantic_depth = 0
    /\ label_counter = 0 /\ ctx = <<>> /\ visited = 0 /\ declared = <<>>
    /\ gen_pc = "idle"

\* FunctionType::serialize applied to one value
FtInit ==
    /\ ft \in FunctionTypes(MaxParams) /\ ft_out = <<>> /\ ft_pc = "input"
    /\ SerIdle /\ LowIdle /\ GenIdle

SerializeFunctionType ==
    /\ ft_pc = "input"
    /\ ft_out' = FunctionTypeSerialize(ft)
    /\ ft_pc' = "done"
    /\ UNCHANGED <<ft, functions, segments, sections_out, out, ser_pc, low_vars, gen_vars>>

FtNext == SerializeFunctionType
SpecFT == FtInit /\ [][FtNext]_vars

\* A caller collects functions, wraps them in sections, and serializes the module
SerInit ==
    /\ functions = <<>> /\ segments = <<>> /\ sections_out = <<>> /\ out = <<>>
    /\ ser_pc = "build"
    /\ FtIdle /\ LowIdle /\ GenIdle

AddFunction(f) ==
    /\ ser_pc = "build"
    /\ segments = <<>>
    /\ Len(functions) < MaxFuncs
    /\ functions' = Append(functions, f)
    /\ UNCHANGED <<ft, ft_out, ft_pc, segments, sections_out, out, ser_pc, low_vars, gen_vars>>

PushSection(kind) ==
    /\ ser_pc = "build"
    /\ Len(segments) < MaxSections
    /\ segments' = Append(segments, NewSection(kind, functions))
    /\ UNCHANGED <<ft, ft_out, ft_pc, functions, sections_out, out, ser_pc, low_vars, gen_vars>>

\* Module::serialize; sections_out are the values its flat_map iterates over
SerializeModule ==
    /\ ser_pc = "build"
    /\ sections_out' = [i \in 1..Len(segments) |-> SectionSerialize(segments[i])]
    /\ out' = ModuleSerialize(segments)
    /\ ser_pc' = "done"
    /\ UNCHANGED <<ft, ft_out, ft_pc, functions, segments, low_vars, gen_vars>>

SerNext ==
    \/ \E f \in SectionFunctions : AddFunction(f)
    \/ \E kind \in SectionKinds : PushSection(kind)
    \/ SerializeModule
SpecSer == SerInit /\ [][SerNext]_vars


(***************************************************************************)
(* Claims about the serializer                                             *)
(***************************************************************************)

\* C5: for every list of sections (none included) Module::serialize returns a
\* byte vector whose first 8 bytes are 00 61 73 6D 01 00 00 00 and whose
\* remainder is the sections' bytes in order.
C5_ModulePreamble ==
    ser_pc = "done" =>
        /\ Len(out) >= 8
        /\ SubSeq(out, 1, 8) = <<0, 97, 115, 109, 1, 0, 0, 0>>
        /\ SubSeq(out, 9, Len(out)) = Flatten(sections_out)

C5_Witness ==
    /\ ser_pc = "done"
    /\ Len(segments) >= 2
    /\ Len(functions) = 2
    /\ Len(out) > 8

\* C6: FunctionType::serialize of a type with n parameters yields 0x60, n, one
\* byte per parameter in order (I32 -> 0x7F, F32 -> 0x7D, Void -> 0x00, an
\* injective mapping), then 0x00 for a Void return or 0x01 and the return
\* type's byte otherwise: n+3 bytes for a void function, n+4 otherwise.
C6_FunctionTypeBytes ==
    LET byte(ty) == IF ty = "I32" THEN 127 ELSE IF ty = "F32" THEN 125 ELSE 0
        n == Len(ft.params)
    IN  ft_pc = "done" =>
            /\ Len(ft_out) >= n + 3
            /\ ft_out[1] = 96
            /\ ft_out[2] = n
            /\ \A i \in 1..n : ft_out[2 + i] = byte(ft.params[i])
            /\ IF ft.ret = "Void"
               THEN Len(ft_out) = n + 3 /\ ft_out[n + 3] = 0
               ELSE Len(ft_out) = n + 4 /\ ft_out[n + 3] = 1 /\ ft_out[n + 4] = byte(ft.ret)
            /\ \A a, b \in ValTypes : ValTypeByte(a) = ValTypeByte(b) => a = b

C6_Witness ==
    /\ ft_pc = "done"
    /\ Len(ft.params) = 2
    /\ ft.params[1] /= ft.params[2]
    /\ ft.ret = "F32"

\* C7: the Type, Function and Export sections serialize to [id, size, count,
\* entries...] with id 1, 3 and 7, count the number of entries, the entries in
\* list order and, for content of at most 127 bytes, size the number of bytes
\* that follow the size byte.
C7_SectionFraming ==
    ser_pc = "done" =>
        \A i \in 1..Len(segments) :
            LET s == segments[i]
                b == sections_out[i]
                n == Len(s.functions)
                entry(k) == CASE s.kind = "Type" -> FunctionTypeSerialize(s.functions[k])
                              [] s.kind = "Function" -> <<k - 1>>
                              [] s.kind = "Export" -> ExportDescription(k - 1, s.functions[k])
            IN  (s.kind /= "Code" /\ Len(b) - 2 <= 127) =>
                    /\ Len(b) >= 3
                    /\ b[1] = (CASE s.kind = "Type" -> 1
                                 [] s.kind = "Function" -> 3
                                 [] s.kind = "Export" -> 7)
                    /\ b[2] = Len(b) - 2
                    /\ b[3] = n
                    /\ SubSeq(b, 4, Len(b)) = Flatten([k \in 1..n |-> entry(k)])

C7_Witness ==
    /\ ser_pc = "done"
    /\ Len(functions) = 2
    /\ functions[1].params /= functions[2].params
    /\ \E i, j, k \in 1..Len(segments) :
        segments[i].kind = "Type" /\ segments[j].kind = "Function" /\ segments[k].kind = "Export"

\* The k-th (0-based) function type entry of a serialized type section,
\* found by decoding the entries before it
RECURSIVE TypeEntryFrom(_, _, _)
TypeEntryFrom(b, off, k) ==
    LET n == b[off + 2]
        rc == b[off + 3 + n]
        len == 3 + n + rc
    IN  IF k = 0 THEN SubSeq(b, off + 1, off + len)
        ELSE TypeEntryFrom(b, off + len, k - 1)

\* C8: FunctionSection::serialize of n functions yields the count n and then
\* one byte per function, in order, the i-th being the index of that
\* function's type in the type section built from the same functions.
C8_FunctionSectionIndexes ==
    ser_pc = "done" =>
        \A i \in 1..Len(segments) :
            segments[i].kind = "Function" =>
                LET b == sections_out[i]
                    fs == segments[i].functions
                    n == Len(fs)
                IN  /\ Len(b) = 3 + n
                    /\ b[3] = n
                    /\ \A k \in 1..n :
                        /\ b[3 + k] = k - 1
                        /\ \A j \in 1..Len(segments) :
                            segments[j].kind = "Type" =>
                                LET e == TypeEntryFrom(sections_out[j], 3, b[3 + k])
                                    p == fs[k].params
                                IN  /\ e[1] = 96
                                    /\ e[2] = Len(p)
                                    /\ SubSeq(e, 3, 2 + Len(p)) = [x \in 1..Len(p) |-> ValTypeByte(p[x])]
                                    /\ IF fs[k].ret = "Void"
                                       THEN SubSeq(e, 3 + Len(p), Len(e)) = <<0>>
                                       ELSE SubSeq(e, 3 + Len(p), Len(e)) = <<1, ValTypeByte(fs[k].ret)>>

C8_Witness ==
    /\ ser_pc = "done"
    /\ Len(functions) = 2
    /\ functions[1].ret /= functions[2].ret
    /\ \E i, j \in 1..Len(segments) :
        segments[i].kind = "Function" /\ segments[j].kind = "Type"

\* Offset of the k-th (0-based) export entry: 3 header bytes, then the entries before it
RECURSIVE ExportEntryOffset(_, _)
ExportEntryOffset(fs, k) ==
    IF k = 0 THEN 3 ELSE ExportEntryOffset(fs, k - 1) + Len(fs[k].name) + 3

\* C9: ExportSection::serialize emits after the count one entry per export in
\* list order: the name's length, the name's bytes, the tag 0x00 and the
\* function index, which for the k-th entry (0-based) is k; entry k takes
\* len(name_k)+3 bytes.
C9_ExportEntries ==
    ser_pc = "done" =>
        \A i \in 1..Len(segments) :
            segments[i].kind = "Export" =>
                LET b == sections_out[i]
                    fs == segments[i].functions
                    n == Len(fs)
                IN  /\ b[3] = n
                    /\ Len(b) = ExportEntryOffset(fs, n)
                    /\ \A k \in 0..(n - 1) :
                        LET off == ExportEntryOffset(fs, k)
                            name == fs[k + 1].name
                        IN  /\ b[off + 1] = Len(name)
                            /\ SubSeq(b, off + 2, off + 1 + Len(name)) = name
                            /\ b[off + Len(name) + 2] = 0
                            /\ b[off + Len(name) + 3] = k

C9_Witness ==
    /\ ser_pc = "done"
    /\ Len(functions) = 2
    /\ functions[1].name = NameMain
    /\ functions[2].name = NameEmpty
    /\ \E i \in 1..Len(segments) : segments[i].kind = "Export"

\* C10: the binary of the empty module is the 8-byte preamble followed by
\* empty type, function, export and code sections: every section, the code
\* section included, reports zero entries.
C10_EmptyModuleBinary ==
    ( /\ ser_pc = "done"
      /\ functions = <<>>
      /\ [i \in 1..Len(segments) |-> segments[i].kind] = <<"Type", "Function", "Export", "Code">> )
    => /\ \A i \in 1..4 : sections_out[i][3] = 0
       /\ out = <<0, 97, 115, 109, 1, 0, 0, 0>>
                \o <<1, 1, 0>> \o <<3, 1, 0>> \o <<7, 1, 0>> \o <<10, 1, 0>>


(***************************************************************************)
(* AST lowering: src/jswt-ast-lowering/src/lib.rs                          *)
(*                                                                         *)
(* A SingleExpression is a record of one shape:                            *)
(*   kind  "Identifier" | "Literal" | "This" | "MemberDot" | "Binary"      *)
(*         | "Arguments"                                                   *)
(*   name  the identifier, or the callee of an arguments-call              *)
(*   op    the BinaryOperator of a binary expression                       *)
(*   ty    the stringified type tag of the node                            *)
(*   value the value of an integer literal                                 *)
(*   args  the children: <<target, expression>> of a member-dot,           *)
(*         <<left, right>> of a binary expression, the arguments of a call *)
(* Class declarations and `new` are handled by visitor methods that are    *)
(* commented out in AstLowering; they are not part of the expressions      *)
(* modelled here.                                                          *)
(***************************************************************************)
Node(kind, name, op, ty, value, args) ==
    [kind |-> kind, name |-> name, op |-> op, ty |-> ty, value |-> value, args |-> args]

IdentifierExp(name, ty) == Node("Identifier", name, "", ty, 0, <<>>)
LiteralExp(v) == Node("Literal", "", "", "i32", v, <<>>)
ThisExp == Node("This", "", "", "Point", 0, <<>>)
MemberDotExp(target, expression) ==
    Node("MemberDot", "", "", expression.ty, 0, <<target, expression>>)
BinaryExp(op, left, right, ty) == Node("Binary", "", op, ty, 0, <<left, right>>)
ArgumentsExp(name, args, ty) == Node("Arguments", name, "", ty, 0, args)
TypedLiteralExp(ty, v) == Node("Literal", "", "", ty, v, <<>>)
ArrayLiteralExp(elements) == Node("ArrayLiteral", "", "", "array", 0, elements)
UnaryExp(op, e) == Node("Unary", "", op, e.ty, 0, <<e>>)
AssignmentExp(left, right) == Node("Assignment", "", "Assign", right.ty, 0, <<left, right>>)
MemberIndexExp(target, index) == Node("MemberIndex", "", "", "i32", 0, <<target, index>>)

\* gen::ident_exp
ident_exp(name) == IdentifierExp(name, "Point")

\* byte offset of a field in the BindingsTable: the fields are i32, in declaration order
FieldOffset(field) == CASE field = "len" -> 0 [] field = "capacity" -> 4 [] OTHER -> 0

\* AstLowering::class_this_access: `this.f` becomes a load at the field's offset from `this`
class_this_access(target) ==
    ArgumentsExp("i32Load", <<ident_exp("this"), LiteralExp(FieldOffset(target.name))>>, target.ty)

RECURSIVE visit_single_expression(_)

\* transform::walk_member_dot: the default traversal rebuilds the node from its visited children
walk_member_dot(node) ==
    MemberDotExp(visit_single_expression(node.args[1]), visit_single_expression(node.args[2]))

\* transform::walk_binary_expression: the default traversal rebuilds the node from its visited children
walk_binary_expression(node) ==
    BinaryExp(node.op, visit_single_expression(node.args[1]),
              visit_single_expression(node.args[2]), node.ty)

\* transform::walk_arguments: the default traversal rebuilds the call from its visited arguments
walk_arguments(node) ==
    ArgumentsExp(node.name,
                 [i \in 1..Len(node.args) |-> visit_single_expression(node.args[i])], node.ty)

\* AstLowering::visit_member_dot
visit_member_dot(node) ==
    IF node.args[1].kind = "This"
    THEN class_this_access(node.args[2])
    ELSE walk_member_dot(node)

\* AstLowering::visit_this_expression
visit_this_expression(node) == ident_exp("this")

\* AstLowering::visit_binary_expression
visit_binary_expression(node) ==
    LET op_type == node.ty
        left == visit_single_expression(node.args[1])
        right == visit_single_expression(node.args[2])
    IN  CASE node.op = "Plus" ->
                ArgumentsExp(op_type \o "#add", <<left, right>>, node.ty)
          [] node.op = "Minus" ->
                ArgumentsExp(op_type \o "#sub", <<left, right>>, node.ty)
          [] OTHER -> walk_binary_expression(node)

\* TransformVisitor::visit_single_expression: dispatch on the node kind
visit_single_expression(node) ==
    CASE node.kind = "This" -> visit_this_expression(node)
      [] node.kind = "MemberDot" -> visit_member_dot(node)
      [] node.kind = "Binary" -> visit_binary_expression(node)
      [] node.kind = "Arguments" -> walk_arguments(node)
      [] OTHER -> node

\* Nesting depth of an expression
RECURSIVE ExprDepth(_)
ExprDepth(e) ==
    IF e.args = <<>> THEN 0
    ELSE 1 + (CHOOSE d \in {ExprDepth(e.args[i]) : i \in 1..Len(e.args)} :
                \A i \in 1..Len(e.args) : ExprDepth(e.args[i]) <= d)

\* Whether a node of one of the kinds is reachable from e
RECURSIVE Reaches(_, _)
Reaches(e, kinds) ==
    \/ e.kind \in kinds
    \/ \E i \in 1..Len(e.args) : Reaches(e.args[i], kinds)

LeafExprs == {IdentifierExp("a", "Point"), LiteralExp(1), ThisExp}
FieldNames == {"len", "capacity"}
BinaryOps == {"Plus", "Minus", "Mult"}
ExprTypes == {"i32", "Point"}

\* The parser and the semantic analyzer hand over a typed expression tree
LowInit ==
    /\ ast \in LeafExprs
    /\ low_pc = "parsed"
    /\ FtIdle /\ SerIdle /\ GenIdle

ParseMemberDot(field) ==
    /\ low_pc = "parsed"
    /\ ExprDepth(ast) < MaxExprDepth
    /\ ast' = MemberDotExp(ast, IdentifierExp(field, "i32"))
    /\ UNCHANGED <<low_pc, ser_vars, gen_vars>>

ParseBinary(op, ty, other, astOnLeft) ==
    /\ low_pc = "parsed"
    /\ ExprDepth(ast) < MaxExprDepth
    /\ ast' = IF astOnLeft THEN BinaryExp(op, ast, other, ty) ELSE BinaryExp(op, other, ast, ty)
    /\ UNCHANGED <<low_pc, ser_vars, gen_vars>>

\* AstLowering::desugar
Desugar ==
    /\ low_pc = "parsed"
    /\ ast' = visit_single_expression(ast)
    /\ low_pc' = "lowered"
    /\ UNCHANGED <<ser_vars, gen_vars>>

LowNext ==
    \/ \E field \in FieldNames : ParseMemberDot(field)
    \/ \E op \in BinaryOps, ty \in ExprTypes, other \in LeafExprs, astOnLeft \in BOOLEAN :
            ParseBinary(op, ty, other, astOnLeft)
    \/ Desugar
SpecLower == LowInit /\ [][LowNext]_vars

\* C1: after AstLowering::desugar no node of kind class, `this`, member-dot
\* or `new` is reachable from the program root; in particular a member-dot
\* whose target is not `this` (such as a.b) does not survive lowering.
C1_NoSugarAfterLowering ==
    low_pc = "lowered" => ~Reaches(ast, {"Class", "This", "MemberDot", "New"})

\* the primitive type tags
PrimitiveTypes == {"i32", "u32", "f32", "bool"}

\* C11: desugar rewrites a binary + or - to the call T#add(l, r) / T#sub(l, r)
\* (T the type of the expression, l and r the lowered operands, left then
\* right) only when the type is not primitive; a + or - of primitive type
\* stays a binary expression.
C11_PrimitiveBinaryPassesThrough ==
    [][ (low_pc = "parsed" /\ low_pc' = "lowered" /\ ast.kind = "Binary"
            /\ ast.op \in {"Plus", "Minus"})
        => IF ast.ty \in PrimitiveTypes
           THEN ast'.kind = "Binary" /\ ast'.op = ast.op
           ELSE ast' = ArgumentsExp(ast.ty \o (IF ast.op = "Plus" THEN "#add" ELSE "#sub"),
                                    <<visit_single_expression(ast.args[1]),
                                      visit_single_expression(ast.args[2])>>, ast.ty) ]_vars


(***************************************************************************)
(* Code generator: src/jswt-codegen/src/lib.rs                             *)
(*                                                                         *)
(* An Instruction is a record of one shape:                                *)
(*   op    the variant name                                                *)
(*   name  the variable, callee or raw text                                *)
(*   ty    the value type of a Local declaration                           *)
(*   value the constant of I32Const / F32Const, the label of Loop, BrLoop  *)
(*         and Block                                                       *)
(*   args  the boxed operands, the arguments of a Call, the list of a      *)
(*         Complex                                                         *)
(*   body  the then-list of an If, the body of a Loop or Block             *)
(*   alt   the else-list of an If                                          *)
(***************************************************************************)
Instr(op, name, ty, value, args, body, alt) ==
    [op |-> op, name |-> name, ty |-> ty, value |-> value, args |-> args,
     body |-> body, alt |-> alt]

Noop == Instr("Noop", "", "", 0, <<>>, <<>>, <<>>)
SynthReturn == Instr("SynthReturn", "", "", 0, <<>>, <<>>, <<>>)
I32Const(v) == Instr("I32Const", "", "", v, <<>>, <<>>, <<>>)
F32Const(v) == Instr("F32Const", "", "", v, <<>>, <<>>, <<>>)
BinaryInstr(op, lhs, rhs) == Instr(op, "", "", 0, <<lhs, rhs>>, <<>>, <<>>)
LocalGet(name) == Instr("LocalGet", name, "", 0, <<>>, <<>>, <<>>)
GlobalGet(name) == Instr("GlobalGet", name, "", 0, <<>>, <<>>, <<>>)
\* Mutant: the Noop placeholder of visit_assignable_element is kept as the operand
LocalSetPlaceholder(name, x) == Instr("LocalSet", name, "", 0, <<Noop>>, <<>>, <<>>)
LocalSet(name, x) == Instr("LocalSet", name, "", 0, <<x>>, <<>>, <<>>)
GlobalSet(name, x) == Instr("GlobalSet", name, "", 0, <<x>>, <<>>, <<>>)
Call(name, args) == Instr("Call", name, "", 0, args, <<>>, <<>>)
Return(x) == Instr("Return", "", "", 0, <<x>>, <<>>, <<>>)
If(cond, cons, alt) == Instr("If", "", "", 0, <<cond>>, cons, alt)
Loop(label, body) == Instr("Loop", "", "", label, <<>>, body, <<>>)
\* Mutant: the branch names the outermost loop
BrLoopOutermost(label) == Instr("BrLoop", "", "", 0, <<>>, <<>>, <<>>)
BrLoop(label) == Instr("BrLoop", "", "", label, <<>>, <<>>, <<>>)
\* Mutant: the block loses the instructions of the body
BlockDroppingBody(label, body) == Instr("Block", "", "", label, <<>>, <<>>, <<>>)
Block(label, body) == Instr("Block", "", "", label, <<>>, body, <<>>)
Local(name, ty) == Instr("Local", name, ty, 0, <<>>, <<>>, <<>>)
RawWast(text) == Instr("RawWast", text, "", 0, <<>>, <<>>, <<>>)
Complex(list) == Instr("Complex", "", "", 0, list, <<>>, <<>>)
I32Store(addr, val) == Instr("I32Store", "", "", 0, <<addr, val>>, <<>>, <<>>)

(***************************************************************************)
(* WastSymbolTable (mod symbols): a stack of scopes, each an insertion-    *)
(* ordered list of symbols [name, kind, index, ty] with kind one of        *)
(* "Param", "Local", "Global".  An Option is a sequence of length 0 or 1.  *)
(***************************************************************************)
WastSymbol(name, kind, index, ty) == [name |-> name, kind |-> kind, index |-> index, ty |-> ty]

WastNew == <<>>
WastPushScope(w) == Append(w, <<>>)
WastPopScope(w) == SubSeq(w, 1, Len(w) - 1)
WastDepth(w) == Len(w)

ScopeLookup(scope, name) ==
    IF \E i \in 1..Len(scope) : scope[i].name = name
    THEN <<scope[CHOOSE i \in 1..Len(scope) : scope[i].name = name]>>
    ELSE <<>>

WastLookupCurrent(w, name) == IF w = <<>> THEN <<>> ELSE ScopeLookup(w[Len(w)], name)
WastLookupGlobal(w, name) == IF w = <<>> THEN <<>> ELSE ScopeLookup(w[1], name)

\* Mutant: lookup sees the innermost scope only
WastLookupInnermost(w, name) == WastLookupCurrent(w, name)

\* lookup walks outward from the innermost scope
RECURSIVE WastLookup(_, _)
WastLookup(w, name) ==
    IF w = <<>> THEN <<>>
    ELSE IF ScopeLookup(w[Len(w)], name) /= <<>> THEN ScopeLookup(w[Len(w)], name)
    ELSE WastLookup(WastPopScope(w), name)

\* define inserts into the current scope; an existing name keeps its position
WastDefine(w, sym) ==
    LET scope == w[Len(w)]
        newScope ==
            IF \E i \in 1..Len(scope) : scope[i].name = sym.name
            THEN [i \in 1..Len(scope) |-> IF scope[i].name = sym.name THEN sym ELSE scope[i]]
            ELSE Append(scope, sym)
    IN  [w EXCEPT ![Len(w)] = newScope]

WastSymbolsInCurrentScope(w) == w[Len(w)]

\* decimal digits of a natural number
DigitStr(d) ==
    CASE d = 0 -> "0" [] d = 1 -> "1" [] d = 2 -> "2" [] d = 3 -> "3" [] d = 4 -> "4"
      [] d = 5 -> "5" [] d = 6 -> "6" [] d = 7 -> "7" [] d = 8 -> "8" [] d = 9 -> "9"
RECURSIVE NatStr(_)
NatStr(n) == IF n < 10 THEN DigitStr(n) ELSE NatStr(n \div 10) \o DigitStr(n % 10)

\* name of the n-th synthetic local of a scope
SyntheticName(n) == "$" \o NatStr(n)

\* define_synthetic_local: a fresh Local in the current scope; returns its name
WastSyntheticLocalName(w) == SyntheticName(Len(w[Len(w)]))
WastDefineSyntheticLocal(w, ty) ==
    WastDefine(w, WastSymbol(WastSyntheticLocalName(w), "Local", 0, ty))

(***************************************************************************)
(* Module construction                                                     *)
(***************************************************************************)
\* jswt_wast::FunctionType { params: Vec<(name, ValueType)>, ret: Option<ValueType> }
WastFunctionType(params, ret) == [params |-> params, ret |-> ret]

\* Mutant: push_type appends without looking for an equal entry
push_type_always_append(types, new_ty) ==
    [list |-> Append(types, new_ty), idx |-> Len(types)]

\* CodeGenerator::push_type: the module.types it leaves and the (0-based) index it returns
push_type(types, new_ty) ==
    IF \E i \in 1..Len(types) : types[i] = new_ty
    THEN [list |-> types,
          idx |-> (CHOOSE i \in 1..Len(types) :
                     /\ types[i] = new_ty
                     /\ \A j \in 1..(i - 1) : types[j] /= new_ty) - 1]
    ELSE [list |-> Append(types, new_ty), idx |-> Len(types)]

\* Mutant: push_import leaves module.imports as it was
push_import_dropped(imports, import) == [list |-> imports, idx |-> Len(imports)]

\* CodeGenerator::push_import
push_import(imports, import) == [list |-> Append(imports, import), idx |-> Len(imports)]

\* CodeGenerator::push_global
push_global(globals, global) == [list |-> Append(globals, global), idx |-> Len(globals)]

\* Mutant: push_function returns the length after the push
push_function_returns_len(fns, func) == [list |-> Append(fns, func), idx |-> Len(fns) + 1]

\* CodeGenerator::push_function
push_function(fns, func) == [list |-> Append(fns, func), idx |-> Len(fns)]

\* CodeGenerator::push_export: returns module.functions.len() - 1
push_export(exports, fns, export) == [list |-> Append(exports, export), idx |-> Len(fns) - 1]

\* CodeGenerator::push_instruction on a non-empty scope stack
push_instruction(sc, inst) == [sc EXCEPT ![Len(sc)] = Append(@, inst)]

\* Mutant: push_instruction_scope pushes two frames
push_instruction_scope_twice(sc) == Append(Append(sc, <<>>), <<>>)

\* CodeGenerator::push_instruction_scope
push_instruction_scope(sc) == Append(sc, <<>>)

\* Mutant: pop_instruction_scope reads the last frame and leaves it on the stack
pop_instruction_scope_keep(sc) == sc

\* CodeGenerator::pop_instruction_scope: the stack it leaves (the popped frame is the last one)
pop_instruction_scope(sc) == SubSeq(sc, 1, Len(sc) - 1)

(***************************************************************************)
(* Expression visitor.  The visitor returns the instruction together with  *)
(* the wast symbol table it leaves (an array literal defines a synthetic   *)
(* local) and whether it returned at all: ok = FALSE is a panic (todo!(),  *)
(* unimplemented!()).                                                      *)
(***************************************************************************)
ExprResult(isr, w, ok) == [isr |-> isr, wast |-> w, ok |-> ok]

RECURSIVE gen_visit_single_expression(_, _)
RECURSIVE VisitExpressionList(_, _)

\* the iterator over arguments / elements: visits in order, threading the table
VisitExpressionList(es, w) ==
    IF es = <<>> THEN [isrs |-> <<>>, wast |-> w, ok |-> TRUE]
    ELSE LET first == gen_visit_single_expression(Head(es), w)
             rest == VisitExpressionList(Tail(es), first.wast)
         IN  [isrs |-> <<first.isr>> \o rest.isrs, wast |-> rest.wast,
              ok |-> first.ok /\ rest.ok]

\* Mutant: the array literal does not end with the read of the array pointer
gen_visit_literal_no_pointer_result(node, w) ==
    CASE node.kind = "ArrayLiteral" ->
            LET array_pointer == WastSyntheticLocalName(w)
                w1 == WastDefineSyntheticLocal(w, "I32")
                elems == VisitExpressionList(node.args, w1)
                first == LocalSet(array_pointer, Call("arrayNew", <<I32Const(4)>>))
                stores == [i \in 1..Len(elems.isrs) |->
                             I32Store(Call("arrayPush", <<LocalGet(array_pointer)>>),
                                      elems.isrs[i])]
            IN  ExprResult(Complex(<<first>> \o stores), elems.wast, elems.ok)
      [] node.ty = "string" -> ExprResult(Noop, w, FALSE)
      [] node.ty = "i32" -> ExprResult(I32Const(node.value), w, TRUE)
      [] node.ty = "f32" -> ExprResult(F32Const(node.value), w, TRUE)
      [] node.ty = "bool" -> ExprResult(I32Const(IF node.value /= 0 THEN 1 ELSE 0), w, TRUE)

\* CodeGenerator::visit_literal
gen_visit_literal(node, w) ==
    CASE node.kind = "ArrayLiteral" ->
            LET array_pointer == WastSyntheticLocalName(w)
                w1 == WastDefineSyntheticLocal(w, "I32")
                elems == VisitExpressionList(node.args, w1)
                first == LocalSet(array_pointer, Call("arrayNew", <<I32Const(4)>>))
                stores == [i \in 1..Len(elems.isrs) |->
                             I32Store(Call("arrayPush", <<LocalGet(array_pointer)>>),
                                      elems.isrs[i])]
            IN  ExprResult(Complex(<<first>> \o stores \o <<LocalGet(array_pointer)>>),
                           elems.wast, elems.ok)
      [] node.ty = "string" -> ExprResult(Noop, w, FALSE)
      [] node.ty = "i32" -> ExprResult(I32Const(node.value), w, TRUE)
      [] node.ty = "f32" -> ExprResult(F32Const(node.value), w, TRUE)
      [] node.ty = "bool" -> ExprResult(I32Const(IF node.value /= 0 THEN 1 ELSE 0), w, TRUE)

\* CodeGenerator::visit_identifier_expression
gen_visit_identifier_expression(node, w) ==
    IF WastLookupCurrent(w, node.name) /= <<>>
    THEN ExprResult(LocalGet(node.name), w, TRUE)
    ELSE ExprResult(GlobalGet(node.name), w, TRUE)

\* CodeGenerator::visit_argument_expression
gen_visit_argument_expression(node, w) ==
    LET args == VisitExpressionList(node.args, w)
    IN  ExprResult(Call(node.name, args.isrs), args.wast, args.ok)

\* CodeGenerator::visit_unary_expression
gen_visit_unary_expression(node, w) ==
    LET exp == gen_visit_single_expression(node.args[1], w)
    IN  CASE node.op = "Plus" -> ExprResult(Noop, exp.wast, FALSE)
          [] node.op = "Minus" ->
                ExprResult(BinaryInstr("I32Sub", I32Const(0), exp.isr), exp.wast, exp.ok)
          [] node.op = "Not" ->
                ExprResult(BinaryInstr("I32Xor", exp.isr, I32Const(-1)), exp.wast, exp.ok)

\* the I32 arm of CodeGenerator::visit_binary_expression
I32BinaryOp(op) ==
    CASE op = "Plus" -> "I32Add"
      [] op = "Minus" -> "I32Sub"
      [] op = "Mult" -> "I32Mul"
      [] op = "Equal" -> "I32Eq"
      [] op = "NotEqual" -> "I32Neq"
      [] op = "Div" -> "I32Div"
      [] op = "And" -> "I32And"
      [] op = "Or" -> "I32Or"
      [] op = "Greater" -> "I32Gt"
      [] op = "GreaterEqual" -> "I32Ge"
      [] op = "Less" -> "I32Lt"
      [] op = "LessEqual" -> "I32Le"
      [] OTHER -> "todo"

\* CodeGenerator::visit_binary_expression
gen_visit_binary_expression(node, w) ==
    LET lhs == gen_visit_single_expression(node.args[1], w)
        rhs == gen_visit_single_expression(node.args[2], lhs.wast)
        lhs_type == node.args[1].ty
        ok == lhs.ok /\ rhs.ok
    IN  CASE lhs_type = "i32" /\ I32BinaryOp(node.op) /= "todo" ->
                ExprResult(BinaryInstr(I32BinaryOp(node.op), lhs.isr, rhs.isr), rhs.wast, ok)
          [] lhs_type = "f32" /\ node.op = "Plus" ->
                ExprResult(BinaryInstr("F32Add", lhs.isr, rhs.isr), rhs.wast, ok)
          [] OTHER -> ExprResult(Noop, rhs.wast, FALSE)

\* CodeGenerator::visit_member_index
gen_visit_member_index(node, w) ==
    LET container == gen_visit_single_expression(node.args[1], w)
        index == gen_visit_single_expression(node.args[2], container.wast)
    IN  ExprResult(Call("arrayAt", <<container.isr, index.isr>>), index.wast,
                   container.ok /\ index.ok)

\* Mutant: the target is looked up in every scope, not in the outermost one
gen_visit_assignment_expression_any_scope(node, w) ==
    LET rhs == gen_visit_single_expression(node.args[2], w)
        left == node.args[1]
    IN  CASE left.kind = "Identifier" ->
                IF WastLookup(rhs.wast, left.name) /= <<>>
                THEN ExprResult(GlobalSet(left.name, rhs.isr), rhs.wast, rhs.ok)
                ELSE ExprResult(LocalSet(left.name, rhs.isr), rhs.wast, rhs.ok)
          [] left.kind = "MemberIndex" ->
                LET index_ptr == gen_visit_member_index(left, rhs.wast)
                IN  ExprResult(I32Store(index_ptr.isr, rhs.isr),
                               index_ptr.wast, rhs.ok /\ index_ptr.ok)
          [] OTHER -> ExprResult(Noop, rhs.wast, FALSE)

\* CodeGenerator::visit_assignment_expression
gen_visit_assignment_expression(node, w) ==
    LET rhs == gen_visit_single_expression(node.args[2], w)
        left == node.args[1]
    IN  CASE left.kind = "Identifier" ->
                IF WastLookupGlobal(rhs.wast, left.name) /= <<>>
                THEN ExprResult(GlobalSet(left.name, rhs.isr), rhs.wast, rhs.ok)
                ELSE ExprResult(LocalSet(left.name, rhs.isr), rhs.wast, rhs.ok)
          [] left.kind = "MemberIndex" ->
                LET index_ptr == gen_visit_member_index(left, rhs.wast)
                IN  ExprResult(I32Store(index_ptr.isr, rhs.isr),
                               index_ptr.wast, rhs.ok /\ index_ptr.ok)
          [] OTHER -> ExprResult(Noop, rhs.wast, FALSE)

\* CodeGenerator::visit_single_expression
gen_visit_single_expression(node, w) ==
    CASE node.kind = "Binary" -> gen_visit_binary_expression(node, w)
      [] node.kind = "Arguments" -> gen_visit_argument_expression(node, w)
      [] node.kind = "Identifier" -> gen_visit_identifier_expression(node, w)
      [] node.kind \in {"Literal", "ArrayLiteral"} -> gen_visit_literal(node, w)
      [] node.kind = "Assignment" -> gen_visit_assignment_expression(node, w)
      [] node.kind = "Unary" -> gen_visit_unary_expression(node, w)
      [] node.kind = "MemberIndex" -> gen_visit_member_index(node, w)


(***************************************************************************)
(* Statement visitor.  The visitor recurses over the program; ctx holds    *)
(* one frame per visit_function_declaration / visit_if_statement /         *)
(* visit_while_iteration_element call that has not returned yet, with the  *)
(* locals of that call.  The program is any sequence of source elements:   *)
(* each action takes the next node from the parser's output.  Block and    *)
(* empty statements emit nothing and are transparent.                      *)
(***************************************************************************)
Frame(kind, decl, type_idx, cond, cons, label) ==
    [kind |-> kind, decl |-> decl, type_idx |-> type_idx, cond |-> cond, cons |-> cons,
     label |-> label]

\* FunctionDeclarationElement with what the semantic analyzer resolved for it:
\* the value type of each parameter and the return type of its scope
Decl(name, params, returns, export, annotation, text) ==
    [name |-> name, params |-> params, returns |-> returns, export |-> export,
     annotation |-> annotation, text |-> text]
NoDecl == Decl("", <<>>, "None", FALSE, "none", "")

Top(seq) == seq[Len(seq)]
Pop(seq) == SubSeq(seq, 1, Len(seq) - 1)

others == <<ser_vars, low_vars>>

\* a panic (unwrap on None, todo!(), unimplemented!(), unreachable!()) aborts the generator
Panic ==
    /\ gen_pc' = "panicked"
    /\ UNCHANGED <<module_types, module_functions, module_imports, module_globals,
                   module_exports, scopes, wast_symbols, semantic_depth, label_counter,
                   ctx, visited, declared>>

\* CodeGenerator::default / CodeGenerator::new
GenInit ==
    /\ module_types = <<>> /\ module_functions = <<>> /\ module_imports = <<>>
    /\ module_globals = <<>> /\ module_exports = <<>>
    /\ scopes = <<>>
    /\ wast_symbols = WastNew
    /\ semantic_depth = 0
    /\ label_counter = 0
    /\ ctx = <<>> /\ visited = 0 /\ declared = <<>>
    /\ gen_pc = "new"
    /\ FtIdle /\ SerIdle /\ LowIdle

\* generate_module -> visit_program, up to the visit of the source elements
visit_program_enter ==
    /\ gen_pc = "new"
    /\ semantic_depth' = semantic_depth + 1
    /\ wast_symbols' = WastPushScope(wast_symbols)
    /\ gen_pc' = "running"
    /\ UNCHANGED <<module_types, module_functions, module_imports, module_globals,
                   module_exports, scopes, label_counter, ctx, visited, declared, others>>

\* visit_program after the source elements: the assertion, then the pops
visit_program_exit ==
    /\ gen_pc = "running"
    /\ ctx = <<>>
    /\ IF semantic_depth /= 1
       THEN Panic
       ELSE /\ semantic_depth' = semantic_depth - 1
            /\ wast_symbols' = WastPopScope(wast_symbols)
            /\ gen_pc' = "done"
            /\ UNCHANGED <<module_types, module_functions, module_imports, module_globals,
                           module_exports, scopes, label_counter, ctx, visited, declared>>
    /\ UNCHANGED others

\* the parameters defined as Param(index, ty), in order
RECURSIVE DefineParams(_, _, _)
DefineParams(w, params, index) ==
    IF index >= Len(params) THEN w
    ELSE DefineParams(WastDefine(w, WastSymbol(params[index + 1].name, "Param", index,
                                               params[index + 1].ty)),
                      params, index + 1)

\* "Push our locals to the instructions": each Local symbol of the scope, in
\* iteration order, is inserted at position 0
RECURSIVE InsertLocals(_, _)
InsertLocals(instructions, syms) ==
    IF syms = <<>> THEN instructions
    ELSE InsertLocals(IF Head(syms).kind = "Local"
                      THEN <<Local(Head(syms).name, Head(syms).ty)>> \o instructions
                      ELSE instructions,
                      Tail(syms))

\* a function declaration may stand at the top level or in a function body
AtSourceElements == IF ctx = <<>> THEN TRUE ELSE Top(ctx).kind = "function"

\* visit_function_declaration of a declaration whose body is visited, up to the body
visit_function_declaration_enter(d) ==
    /\ gen_pc = "running"
    /\ AtSourceElements
    /\ d.annotation \in {"none", "inline"}
    /\ LET w == DefineParams(WastPushScope(wast_symbols), d.params, 0)
           pt == push_type(module_types, WastFunctionType(d.params, d.returns))
       IN  /\ semantic_depth' = semantic_depth + 1
           /\ wast_symbols' = w
           /\ module_types' = pt.list
           /\ scopes' = push_instruction_scope(scopes)
           /\ ctx' = Append(ctx, Frame("function", d, pt.idx, Noop, <<>>, 0))
    /\ visited' = visited + 1
    /\ declared' = Append(declared, d)
    /\ UNCHANGED <<module_functions, module_imports, module_globals, module_exports,
                   label_counter, gen_pc, others>>

\* visit_function_declaration after the body
visit_function_declaration_exit ==
    /\ gen_pc = "running"
    /\ ctx /= <<>>
    /\ Top(ctx).kind = "function"
    /\ LET d == Top(ctx).decl
           scope == Top(scopes)
           w == IF d.returns /= "None"
                THEN WastDefine(wast_symbols, WastSymbol("return", "Local", 0, d.returns))
                ELSE wast_symbols
           body == <<Block(0, scope)>> \o (IF d.returns /= "None" THEN <<SynthReturn>> ELSE <<>>)
           instructions == InsertLocals(body, WastSymbolsInCurrentScope(w))
           pf == push_function(module_functions,
                               [name |-> d.name, type_idx |-> Top(ctx).type_idx,
                                instructions |-> instructions])
           pe == push_export(module_exports, pf.list,
                             [function_idx |-> pf.idx, name |-> d.name])
       IN  /\ scopes' = pop_instruction_scope(scopes)
           /\ module_functions' = pf.list
           /\ module_exports' = IF d.export THEN pe.list ELSE module_exports
           /\ wast_symbols' = WastPopScope(w)
           /\ semantic_depth' = semantic_depth - 1
    /\ ctx' = Pop(ctx)
    /\ UNCHANGED <<module_types, module_imports, module_globals, label_counter, visited,
                   declared, gen_pc, others>>

\* visit_function_declaration of a declaration annotated wast("...") or native("..."):
\* the body is not visited
visit_annotated_function_declaration(d) ==
    /\ gen_pc = "running"
    /\ AtSourceElements
    /\ d.annotation \in {"wast", "native"}
    /\ LET w == DefineParams(WastPushScope(wast_symbols), d.params, 0)
           pt == push_type(module_types, WastFunctionType(d.params, d.returns))
           sc == push_instruction_scope(scopes)
           is_predefined_function == d.annotation = "native"
           sc1 == IF d.annotation = "wast" THEN push_instruction(sc, RawWast(d.text)) ELSE sc
           pi == push_import(module_imports,
                             [name |-> d.name, type_idx |-> pt.idx, module |-> d.text])
           instructions == InsertLocals(Top(sc1), WastSymbolsInCurrentScope(w))
           pf == push_function(module_functions,
                               [name |-> d.name, type_idx |-> pt.idx,
                                instructions |-> instructions])
           pe == push_export(module_exports, pf.list,
                             [function_idx |-> pf.idx, name |-> d.name])
       IN  /\ module_types' = pt.list
           /\ module_imports' = IF d.annotation = "native" THEN pi.list ELSE module_imports
           /\ scopes' = pop_instruction_scope(sc1)
           /\ module_functions' = IF is_predefined_function THEN module_functions ELSE pf.list
           /\ module_exports' = IF ~is_predefined_function /\ d.export
                                THEN pe.list ELSE module_exports
           /\ wast_symbols' = WastPopScope(w)
           /\ semantic_depth' = (semantic_depth + 1) - 1
    /\ visited' = visited + 1
    /\ declared' = Append(declared, d)
    /\ UNCHANGED <<module_globals, label_counter, ctx, gen_pc, others>>

\* visit_variable_statement, with visit_assignable_element; ty is the value type
\* of the semantic symbol
visit_variable_statement(name, ty, e) ==
    /\ gen_pc = "running"
    /\ IF WastLookup(wast_symbols, name) /= <<>>
       THEN Panic
       ELSE LET global == WastDepth(wast_symbols) = 1
                w1 == WastDefine(wast_symbols,
                                 WastSymbol(name, IF global THEN "Global" ELSE "Local", 0, ty))
                exp == gen_visit_single_expression(e, w1)
                pg == push_global(module_globals,
                                  [name |-> name, ty |-> "I32", mutable |-> TRUE,
                                   initializer |-> exp.isr])
            IN  IF ~exp.ok \/ (~global /\ scopes = <<>>)
                THEN Panic
                ELSE /\ wast_symbols' = exp.wast
                     /\ module_globals' = IF global THEN pg.list ELSE module_globals
                     /\ scopes' = IF global THEN scopes
                                  ELSE push_instruction(scopes, LocalSet(name, exp.isr))
                     /\ visited' = visited + 1
                     /\ UNCHANGED <<module_types, module_functions, module_imports,
                                    module_exports, semantic_depth, label_counter, ctx,
                                    declared, gen_pc>>
    /\ UNCHANGED others

\* visit_expression_statement
visit_expression_statement(e) ==
    /\ gen_pc = "running"
    /\ LET isr == gen_visit_single_expression(e, wast_symbols)
       IN  IF ~isr.ok \/ scopes = <<>>
           THEN Panic
           ELSE /\ wast_symbols' = isr.wast
                /\ scopes' = push_instruction(scopes, isr.isr)
                /\ visited' = visited + 1
                /\ UNCHANGED <<module_types, module_functions, module_imports, module_globals,
                               module_exports, semantic_depth, label_counter, ctx, declared,
                               gen_pc>>
    /\ UNCHANGED others

\* visit_return_statement
visit_return_statement(e) ==
    /\ gen_pc = "running"
    /\ LET exp == gen_visit_single_expression(e, wast_symbols)
       IN  IF ~exp.ok \/ scopes = <<>>
           THEN Panic
           ELSE /\ wast_symbols' = exp.wast
                /\ scopes' = push_instruction(scopes, Return(exp.isr))
                /\ visited' = visited + 1
                /\ UNCHANGED <<module_types, module_functions, module_imports, module_globals,
                               module_exports, semantic_depth, label_counter, ctx, declared,
                               gen_pc>>
    /\ UNCHANGED others

\* visit_if_statement up to the visit of the consequence
visit_if_statement_enter(e) ==
    /\ gen_pc = "running"
    /\ LET cond == gen_visit_single_expression(e, wast_symbols)
       IN  IF ~cond.ok
           THEN Panic
           ELSE /\ wast_symbols' = cond.wast
                /\ scopes' = push_instruction_scope(scopes)
                /\ ctx' = Append(ctx, Frame("then", NoDecl, 0, cond.isr, <<>>, 0))
                /\ visited' = visited + 1
                /\ UNCHANGED <<module_types, module_functions, module_imports, module_globals,
                               module_exports, semantic_depth, label_counter, declared, gen_pc>>
    /\ UNCHANGED others

\* visit_if_statement between the consequence and a present alternative
visit_if_statement_else ==
    /\ gen_pc = "running"
    /\ ctx /= <<>>
    /\ Top(ctx).kind = "then"
    /\ LET cons == Top(scopes)
       IN  /\ scopes' = push_instruction_scope(pop_instruction_scope(scopes))
           /\ ctx' = Append(Pop(ctx), Frame("else", NoDecl, 0, Top(ctx).cond, cons, 0))
    /\ UNCHANGED <<module_types, module_functions, module_imports, module_globals,
                   module_exports, wast_symbols, semantic_depth, label_counter, visited,
                   declared, gen_pc, others>>

\* visit_if_statement after the alternative (or after the consequence when there is none)
visit_if_statement_exit ==
    /\ gen_pc = "running"
    /\ ctx /= <<>>
    /\ Top(ctx).kind \in {"then", "else"}
    /\ LET cons == IF Top(ctx).kind = "then" THEN Top(scopes) ELSE Top(ctx).cons
           alt == IF Top(ctx).kind = "then" THEN <<>> ELSE Top(scopes)
           sc == pop_instruction_scope(scopes)
       IN  IF sc = <<>>
           THEN Panic
           ELSE /\ scopes' = push_instruction(sc, If(Top(ctx).cond, cons, alt))
                /\ ctx' = Pop(ctx)
                /\ UNCHANGED <<module_types, module_functions, module_imports, module_globals,
                               module_exports, wast_symbols, semantic_depth, label_counter,
                               visited, declared, gen_pc>>
    /\ UNCHANGED others

\* Mutant: the label counter is not advanced
label_counter_stuck(counter) == counter

\* self.label_counter += 1
label_counter_next(counter) == counter + 1

\* visit_while_iteration_element up to the visit of the body
visit_while_iteration_element_enter(e) ==
    /\ gen_pc = "running"
    /\ LET loop_label == label_counter
           cond == gen_visit_single_expression(e, wast_symbols)
       IN  IF ~cond.ok
           THEN Panic
           ELSE /\ label_counter' = label_counter_next(label_counter)
                /\ wast_symbols' = cond.wast
                /\ scopes' = push_instruction_scope(push_instruction_scope(scopes))
                /\ ctx' = Append(ctx, Frame("while", NoDecl, 0, cond.isr, <<>>, loop_label))
                /\ visited' = visited + 1
                /\ UNCHANGED <<module_types, module_functions, module_imports, module_globals,
                               module_exports, semantic_depth, declared, gen_pc>>
    /\ UNCHANGED others

\* visit_while_iteration_element after the body
visit_while_iteration_element_exit ==
    /\ gen_pc = "running"
    /\ ctx /= <<>>
    /\ Top(ctx).kind = "while"
    /\ LET loop_label == Top(ctx).label
           sc1 == push_instruction(scopes, BrLoop(loop_label))
           if_scope == Top(sc1)
           sc2 == push_instruction(pop_instruction_scope(sc1),
                                   If(Top(ctx).cond, if_scope, <<>>))
           loop_scope == Top(sc2)
           sc3 == pop_instruction_scope(sc2)
       IN  IF sc3 = <<>>
           THEN Panic
           ELSE /\ scopes' = push_instruction(sc3, Loop(loop_label, loop_scope))
                /\ ctx' = Pop(ctx)
                /\ UNCHANGED <<module_types, module_functions, module_imports, module_globals,
                               module_exports, wast_symbols, semantic_depth, label_counter,
                               visited, declared, gen_pc>>
    /\ UNCHANGED others


(***************************************************************************)
(* Programs handed to the code generator                                   *)
(***************************************************************************)
ParamA == [name |-> "a", ty |-> "I32"]
ParamB == [name |-> "b", ty |-> "I32"]
ParamAF == [name |-> "a", ty |-> "F32"]

\* function declarations whose body is visited
GenDecls ==
    { Decl("f", <<>>, "None", FALSE, "none", ""),
      Decl("g", <<ParamA>>, "I32", TRUE, "none", "") }

\* function declarations carrying a wast("...") or native("...") annotation
AnnotatedDecls ==
    { Decl("h", <<>>, "None", TRUE, "wast", "(nop)"),
      Decl("log", <<ParamA>>, "None", FALSE, "native", "env") }

GenValues == { LiteralExp(1), IdentifierExp("a", "i32") }
GenConds == { IdentifierExp("a", "i32") }
VarNames == { "x", "a" }

GenNext ==
    \/ visit_program_enter
    \/ visit_program_exit
    \/ \E d \in GenDecls : visited < MaxVisited /\ visit_function_declaration_enter(d)
    \/ visit_function_declaration_exit
    \/ \E d \in AnnotatedDecls : visited < MaxVisited /\ visit_annotated_function_declaration(d)
    \/ \E n \in VarNames, e \in GenValues :
          visited < MaxVisited /\ visit_variable_statement(n, "I32", e)
    \/ \E e \in GenValues : visited < MaxVisited /\ visit_expression_statement(e)
    \/ \E e \in GenValues : visited < MaxVisited /\ visit_return_statement(e)
    \/ \E e \in GenConds : visited < MaxVisited /\ visit_if_statement_enter(e)
    \/ visit_if_statement_else
    \/ visit_if_statement_exit
    \/ \E e \in GenConds : visited < MaxVisited /\ visit_while_iteration_element_enter(e)
    \/ visit_while_iteration_element_exit

SpecGen == GenInit /\ [][GenNext]_vars

\* programs made of function declarations only; the n-th declaration is named f<n>
FuncName(n) ==
    CASE n = 0 -> "f0" [] n = 1 -> "f1" [] n = 2 -> "f2" [] n = 3 -> "f3" [] OTHER -> "fn"

ParamLists == { <<>>, <<ParamA>>, <<ParamB>>, <<ParamAF>>, <<ParamA, ParamB>> }
ReturnTypes == { "None", "I32" }

TypeDecls(n) ==
    { Decl(FuncName(n), ps, r, FALSE, "none", "") : ps \in ParamLists, r \in ReturnTypes }

TypeAnnotatedDecls(n) ==
    { Decl(FuncName(n), <<ParamA>>, "None", FALSE, "wast", "(nop)"),
      Decl(FuncName(n), <<ParamB>>, "None", FALSE, "native", "env") }

TypesNext ==
    \/ visit_program_enter
    \/ visit_program_exit
    \/ \E d \in TypeDecls(Len(declared)) :
          Len(declared) < MaxDecls /\ visit_function_declaration_enter(d)
    \/ visit_function_declaration_exit
    \/ \E d \in TypeAnnotatedDecls(Len(declared)) :
          Len(declared) < MaxDecls /\ visit_annotated_function_declaration(d)

SpecTypes == GenInit /\ [][TypesNext]_vars

(***************************************************************************)
(* Programs for the expression visitor: a function g(a: i32): i32, a       *)
(* variable x declared at the top level or in the function, and expression *)
(* statements over every kind of expression the visitor dispatches on.     *)
(***************************************************************************)
LitOne == LiteralExp(1)
LitTwo == LiteralExp(2)
LitFloat == TypedLiteralExp("f32", 3)
LitBool == TypedLiteralExp("bool", 1)
LitString == TypedLiteralExp("string", 0)
IdentA == IdentifierExp("a", "i32")
IdentX == IdentifierExp("x", "i32")
IdentU == IdentifierExp("u", "u32")

AllBinaryOps ==
    { "Plus", "Minus", "Mult", "Div", "Equal", "NotEqual", "Greater", "GreaterEqual",
      "Less", "LessEqual", "And", "Or", "Assign" }
UnaryOps == { "Plus", "Minus", "Not" }

AtomExprs == { LitOne, LitFloat, LitBool, LitString, IdentA, IdentX, IdentU }
UnaryExprs == { UnaryExp(op, e) : op \in UnaryOps, e \in { LitOne, IdentA } }
BinaryExprs ==
    { BinaryExp(op, IdentA, LitTwo, "i32") : op \in AllBinaryOps }
    \cup { BinaryExp(op, l, LitTwo, l.ty) :
              op \in { "Plus", "Minus", "Less" }, l \in { LitFloat, IdentU, LitBool } }
ArrayExprs ==
    { ArrayLiteralExp(<<>>), ArrayLiteralExp(<<LitOne>>), ArrayLiteralExp(<<LitOne, IdentA>>),
      ArrayLiteralExp(<<LitOne, LitTwo, IdentA>>),
      ArrayLiteralExp(<<ArrayLiteralExp(<<LitOne>>), LitTwo>>),
      ArrayLiteralExp(<<ArrayLiteralExp(<<LitOne>>), ArrayLiteralExp(<<LitTwo, IdentA>>)>>) }
AssignmentExprs ==
    { AssignmentExp(IdentX, LitOne), AssignmentExp(IdentA, LitTwo),
      AssignmentExp(IdentX, ArrayLiteralExp(<<LitOne>>)),
      AssignmentExp(MemberIndexExp(IdentX, LitOne), LitTwo),
      AssignmentExp(MemberIndexExp(IdentA, IdentX), IdentA),
      AssignmentExp(LitOne, LitTwo) }
OtherExprs == { MemberIndexExp(IdentX, LitOne), ArgumentsExp("f", <<LitOne, IdentA>>, "i32") }

ExprUniverse ==
    AtomExprs \cup UnaryExprs \cup BinaryExprs \cup ArrayExprs \cup AssignmentExprs
    \cup OtherExprs

ExprDecls == { Decl("g", <<ParamA>>, "I32", FALSE, "none", "") }
ExprInitializers == { LitOne, ArrayLiteralExp(<<LitOne>>) }

ExprNext ==
    \/ visit_program_enter
    \/ visit_program_exit
    \/ \E d \in ExprDecls : visited < MaxExprStmts /\ visit_function_declaration_enter(d)
    \/ visit_function_declaration_exit
    \/ \E e \in ExprInitializers :
          visited < MaxExprStmts /\ visit_variable_statement("x", "I32", e)
    \/ \E e \in ExprUniverse : visited < MaxExprStmts /\ visit_expression_statement(e)

SpecExpr == GenInit /\ [][ExprNext]_vars

Signature(d) == WastFunctionType(d.params, d.returns)

\* C3: module.types holds no two equal entries, has as many entries as there
\* are distinct (params, ret) tuples (parameter names included) among the
\* declarations visited, and the index push_type returned for a declaration
\* is the index of the entry equal to its tuple
C3_TypeDeduplication ==
    /\ \A i, j \in 1..Len(module_types) : i /= j => module_types[i] /= module_types[j]
    /\ Len(module_types) = Cardinality({ Signature(declared[k]) : k \in 1..Len(declared) })
    /\ \A k \in 1..Len(ctx) :
          ctx[k].kind = "function" =>
             /\ ctx[k].type_idx < Len(module_types)
             /\ module_types[ctx[k].type_idx + 1] = Signature(ctx[k].decl)
    /\ \A n \in 1..Len(module_functions) :
          \E k \in 1..Len(declared) :
             /\ declared[k].name = module_functions[n].name
             /\ module_functions[n].type_idx < Len(module_types)
             /\ module_types[module_functions[n].type_idx + 1] = Signature(declared[k])
    /\ \A n \in 1..Len(module_imports) :
          \E k \in 1..Len(declared) :
             /\ declared[k].name = module_imports[n].name
             /\ module_imports[n].type_idx < Len(module_types)
             /\ module_types[module_imports[n].type_idx + 1] = Signature(declared[k])

\* two functions of equal tuple share entry 0; a third, whose parameter has the
\* same value type under another name, has entry 1
C3_Witness ==
    /\ gen_pc = "done"
    /\ Len(module_functions) = 3
    /\ Len(module_types) = 2
    /\ module_functions[1].type_idx = 0
    /\ module_functions[2].type_idx = 0
    /\ module_functions[3].type_idx = 1
    /\ module_types[1] = WastFunctionType(<<ParamA>>, "I32")
    /\ module_types[2] = WastFunctionType(<<ParamB>>, "I32")

\* the labels of the Loop instructions of an instruction list, nested ones included
RECURSIVE LoopLabelsIn(_)
LoopLabelsIn(instrs) ==
    IF instrs = <<>> THEN <<>>
    ELSE (IF Head(instrs).op = "Loop" THEN <<Head(instrs).value>> ELSE <<>>)
         \o LoopLabelsIn(Head(instrs).args)
         \o LoopLabelsIn(Head(instrs).body)
         \o LoopLabelsIn(Head(instrs).alt)
         \o LoopLabelsIn(Tail(instrs))

\* every label handed out so far: the loops of finished functions, of the open
\* instruction scopes and set-aside consequences, and the open while statements
LoopLabels ==
    LoopLabelsIn(Flatten([n \in 1..Len(module_functions) |-> module_functions[n].instructions]))
    \o LoopLabelsIn(Flatten(scopes))
    \o LoopLabelsIn(Flatten([k \in 1..Len(ctx) |-> ctx[k].cons]))
    \o Flatten([k \in 1..Len(ctx) |->
                  IF ctx[k].kind = "while" THEN <<ctx[k].label>> ELSE <<>>])

\* C4: the labels handed out by one generator are pairwise distinct; the
\* counter started at 0 and moved by exactly 1 per while statement, so they are
\* exactly 0 .. label_counter - 1, whatever functions the loops stand in
C4_LoopLabelsDistinct ==
    /\ \A i, j \in 1..Len(LoopLabels) : i /= j => LoopLabels[i] /= LoopLabels[j]
    /\ \A i \in 1..Len(LoopLabels) : LoopLabels[i] \in 0..(label_counter - 1)
    /\ Len(LoopLabels) = label_counter

\* two functions have been generated, each holding a loop
C4_Witness ==
    /\ gen_pc = "done"
    /\ Len(module_functions) = 2
    /\ LoopLabelsIn(module_functions[1].instructions) = <<0>>
    /\ LoopLabelsIn(module_functions[2].instructions) = <<1>>

(***************************************************************************)
(* Code generator: shape of a generated function                           *)
(***************************************************************************)
\* the step in which a visit_function_declaration with a visited body returns
FunctionDeclarationReturns ==
    /\ ctx /= <<>>
    /\ Top(ctx).kind = "function"
    /\ ctx' = Pop(ctx)

\* the number of Local declarations at the front of an instruction list
RECURSIVE LeadingLocals(_)
LeadingLocals(instrs) ==
    IF instrs = <<>> THEN 0
    ELSE IF Head(instrs).op = "Local" THEN 1 + LeadingLocals(Tail(instrs))
    ELSE 0

\* C12: a function declaration without wast/native annotation yields a Function
\* whose instructions are the Local declarations, then one Block(0, body) whose
\* body is the instruction scope the body statements filled, in the order they
\* were emitted, then SynthReturn exactly when the function has a return type;
\* a Local named `return` of the return type exists exactly in that case
C12_FunctionShape ==
    [][ /\ FunctionDeclarationReturns =>
             LET d == Top(ctx).decl
                 f == module_functions'[Len(module_functions')]
                 n == LeadingLocals(f.instructions)
                 rest == SubSeq(f.instructions, n + 1, Len(f.instructions))
                 hasRet == d.returns /= "None"
             IN  /\ Len(module_functions') = Len(module_functions) + 1
                 /\ f.name = d.name
                 /\ Len(rest) = IF hasRet THEN 2 ELSE 1
                 /\ rest[1].op = "Block" /\ rest[1].value = 0 /\ rest[1].body = Top(scopes)
                 /\ hasRet => rest[2].op = "SynthReturn"
                 /\ (\E i \in 1..n : f.instructions[i].name = "return") <=> hasRet
                 /\ \A i \in 1..n : f.instructions[i].name = "return"
                                       => f.instructions[i].ty = d.returns
        /\ (ctx' = ctx /\ gen_pc' = "running" /\ Len(scopes') = Len(scopes)) =>
              \A k \in 1..Len(scopes) :
                 /\ Len(scopes'[k]) >= Len(scopes[k])
                 /\ SubSeq(scopes'[k], 1, Len(scopes[k])) = scopes[k]
      ]_vars

\* g(a): I32 { let x = ..; return ..; } has been generated: two locals, the
\* block with both statements, the synthetic return
C12_Witness ==
    \E n \in 1..Len(module_functions) :
       LET is == module_functions[n].instructions
       IN  /\ module_functions[n].name = "g"
           /\ Len(is) = 4
           /\ is[3].op = "Block"
           /\ Len(is[3].body) = 2
           /\ is[3].body[1].op = "LocalSet"
           /\ is[3].body[2].op = "Return"
           /\ is[4].op = "SynthReturn"

(***************************************************************************)
(* Code generator: expressions                                             *)
(***************************************************************************)
\* the array pointers of the Complex instructions of an instruction list,
\* nested ones included
RECURSIVE ComplexPointers(_)
ComplexPointers(instrs) ==
    IF instrs = <<>> THEN <<>>
    ELSE (IF Head(instrs).op = "Complex" THEN <<Head(instrs).args[1].name>> ELSE <<>>)
         \o ComplexPointers(Head(instrs).args)
         \o ComplexPointers(Head(instrs).body)
         \o ComplexPointers(Head(instrs).alt)
         \o ComplexPointers(Tail(instrs))

NoDuplicates(seq) == \A i, j \in 1..Len(seq) : i /= j => seq[i] /= seq[j]

\* C13: an array literal of n elements yields one Complex of n + 2
\* instructions: LocalSet(p, Call("arrayNew", [I32Const(4)])), one
\* I32Store(Call("arrayPush", [LocalGet(p)]), value_k) per element in source
\* order, then LocalGet(p); p is a synthetic I32 Local new to the current wast
\* scope, and nested or successive array literals of a function have
\* distinct pointers
C13_ArrayLiteralShape ==
    /\ gen_pc = "running" =>
          \A e \in ArrayExprs :
             LET r == gen_visit_single_expression(e, wast_symbols)
                 n == Len(e.args)
                 c == r.isr
                 ptr == c.args[1].name
             IN  r.ok =>
                    /\ c.op = "Complex"
                    /\ Len(c.args) = n + 2
                    /\ c.args[1] = LocalSet(ptr, Call("arrayNew", <<I32Const(4)>>))
                    /\ \A k \in 1..n :
                          /\ c.args[k + 1].op = "I32Store"
                          /\ c.args[k + 1].args[1] = Call("arrayPush", <<LocalGet(ptr)>>)
                          /\ IF e.args[k].kind = "ArrayLiteral"
                             THEN /\ c.args[k + 1].args[2].op = "Complex"
                                  /\ Len(c.args[k + 1].args[2].args) = Len(e.args[k].args) + 2
                             ELSE c.args[k + 1].args[2]
                                     = gen_visit_single_expression(e.args[k], r.wast).isr
                    /\ c.args[n + 2] = LocalGet(ptr)
                    /\ WastLookupCurrent(wast_symbols, ptr) = <<>>
                    /\ WastLookupCurrent(r.wast, ptr) = <<WastSymbol(ptr, "Local", 0, "I32")>>
                    /\ NoDuplicates(ComplexPointers(<<c>>))
    /\ \A n \in 1..Len(module_functions) :
          LET is == module_functions[n].instructions
              ptrs == ComplexPointers(is)
          IN  /\ NoDuplicates(ptrs)
              /\ \A i \in 1..Len(ptrs) : \E j \in 1..Len(is) : is[j] = Local(ptrs[i], "I32")

\* a function with a nested array literal followed by another array literal
\* has been generated
C13_Witness ==
    \E n \in 1..Len(module_functions) :
       LET is == module_functions[n].instructions
           body == is[LeadingLocals(is) + 1].body
       IN  /\ Len(body) = 2
           /\ body[1].op = "Complex"
           /\ body[2].op = "Complex"
           /\ Len(ComplexPointers(<<body[1]>>)) >= 2
           /\ Len(ComplexPointers(is)) >= 3

\* the constructs the expression visitor has no instruction for
Unsupported(e) ==
    \/ e.kind = "Binary" /\ e.args[1].ty = "f32" /\ e.op /= "Plus"
    \/ e.kind = "Binary" /\ e.args[1].ty \in {"u32", "bool"}
    \/ e.kind = "Literal" /\ e.ty = "string"

\* C14: a binary expression with an F32 left operand yields F32Add for +; for
\* every other operator, for U32 and boolean left operands and for string
\* literals the visitor returns to report an "unsupported" error: it does not
\* panic
C14_UnsupportedIsReported ==
    gen_pc = "running" =>
       \A e \in ExprUniverse :
          LET r == gen_visit_single_expression(e, wast_symbols)
          IN  /\ (e.kind = "Binary" /\ e.args[1].ty = "f32" /\ e.op = "Plus") =>
                    /\ r.ok
                    /\ r.isr = BinaryInstr("F32Add",
                                           gen_visit_single_expression(e.args[1], wast_symbols).isr,
                                           gen_visit_single_expression(e.args[2], wast_symbols).isr)
              /\ Unsupported(e) => r.ok

IsLocalSymbol(sym) == sym.kind = "Local"

\* C15: the Local declarations at the front of a generated function are one
\* per symbol of kind Local of the function's wast scope, none for a Param,
\* and stand in the order in which the locals were defined
C15_LocalsInInsertionOrder ==
    [][ FunctionDeclarationReturns =>
           LET d == Top(ctx).decl
               f == module_functions'[Len(module_functions')]
               defined == SelectSeq(WastSymbolsInCurrentScope(wast_symbols), IsLocalSymbol)
                          \o (IF d.returns /= "None"
                              THEN <<WastSymbol("return", "Local", 0, d.returns)>> ELSE <<>>)
           IN  /\ LeadingLocals(f.instructions) = Len(defined)
               /\ \A i \in 1..Len(defined) :
                     f.instructions[i] = Local(defined[i].name, defined[i].ty)
      ]_vars

\* C16: a unary expression over the operand instruction x yields
\* I32Sub(I32Const(0), x) for -x, I32Xor(x, I32Const(-1)) for !x, and x
\* itself for +x
C16_UnaryInstructions ==
    gen_pc = "running" =>
       \A e \in UnaryExprs :
          LET r == gen_visit_single_expression(e, wast_symbols)
              x == gen_visit_single_expression(e.args[1], wast_symbols).isr
          IN  /\ r.ok
              /\ r.isr = CASE e.op = "Minus" -> BinaryInstr("I32Sub", I32Const(0), x)
                           [] e.op = "Not" -> BinaryInstr("I32Xor", x, I32Const(-1))
                           [] e.op = "Plus" -> x

(***************************************************************************)
(* Code generator: stack discipline of the visits                          *)
(***************************************************************************)
\* the instruction scopes held by the visits that have not returned: one per
\* function declaration and per if statement, two per while statement
RECURSIVE OpenInstructionScopes(_)
OpenInstructionScopes(frames) ==
    IF frames = <<>> THEN 0
    ELSE (IF Head(frames).kind = "while" THEN 2 ELSE 1) + OpenInstructionScopes(Tail(frames))

\* the function declarations that have not returned
RECURSIVE OpenFunctions(_)
OpenFunctions(frames) ==
    IF frames = <<>> THEN 0
    ELSE (IF Head(frames).kind = "function" THEN 1 ELSE 0) + OpenFunctions(Tail(frames))

\* C17: the depths of the instruction-scope stack and of the wast and semantic
\* symbol tables are determined by the visits that have not returned, so every
\* completed visit of a function declaration (body, wast or native), of an if
\* (with or without else) and of a while leaves the three depths as on entry;
\* a returning visit pops its own frames only: the frames below are untouched,
\* but for the one instruction an if or while hands to the enclosing scope
C17_VisitsBalanced ==
    [][ gen_pc' = "running" =>
           /\ Len(scopes') = OpenInstructionScopes(ctx')
           /\ WastDepth(wast_symbols') = 1 + OpenFunctions(ctx')
           /\ semantic_depth' = 1 + OpenFunctions(ctx')
           /\ (ctx /= <<>> /\ ctx' = Pop(ctx)) =>
                 LET m == Len(scopes')
                 IN  /\ m = OpenInstructionScopes(ctx) - (IF Top(ctx).kind = "while" THEN 2 ELSE 1)
                     /\ IF Top(ctx).kind = "function"
                        THEN /\ scopes' = SubSeq(scopes, 1, m)
                             /\ wast_symbols' = SubSeq(wast_symbols, 1, Len(wast_symbols) - 1)
                        ELSE /\ SubSeq(scopes', 1, m - 1) = SubSeq(scopes, 1, m - 1)
                             /\ Len(scopes'[m]) = Len(scopes[m]) + 1
                             /\ SubSeq(scopes'[m], 1, Len(scopes[m])) = scopes[m]
                             /\ scopes'[m][Len(scopes'[m])].op
                                   = (IF Top(ctx).kind = "while" THEN "Loop" ELSE "If")
                             /\ wast_symbols' = wast_symbols
           /\ (gen_pc = "running" /\ ctx' = ctx) =>
                 /\ Len(scopes') = Len(scopes)
                 /\ WastDepth(wast_symbols') = WastDepth(wast_symbols)
                 /\ semantic_depth' = semantic_depth
      ]_vars

\* a function holding an if whose else branch is not empty, followed by a
\* while, has been generated
C17_Witness ==
    /\ gen_pc = "done"
    /\ \E n \in 1..Len(module_functions) :
          LET is == module_functions[n].instructions
              body == is[LeadingLocals(is) + 1].body
          IN  /\ is[LeadingLocals(is) + 1].op = "Block"
              /\ Len(body) = 2
              /\ body[1].op = "If"
              /\ body[1].alt /= <<>>
              /\ body[2].op = "Loop"

(***************************************************************************)
(* Code generator: module lists                                            *)
(***************************************************************************)
\* C18: push_function, push_import, push_global and push_export each append
\* one element to their own list and return the index of that element in that
\* list (for push_export: in module.exports), also when the number of exports
\* differs from the number of functions
C18_PushReturnsOwnIndex ==
    [][ /\ Len(module_functions') = Len(module_functions) + 1 =>
             LET r == push_function(module_functions, module_functions'[Len(module_functions')])
             IN  r.list = module_functions' /\ r.idx = Len(module_functions') - 1
        /\ Len(module_imports') = Len(module_imports) + 1 =>
             LET r == push_import(module_imports, module_imports'[Len(module_imports')])
             IN  r.list = module_imports' /\ r.idx = Len(module_imports') - 1
        /\ Len(module_globals') = Len(module_globals) + 1 =>
             LET r == push_global(module_globals, module_globals'[Len(module_globals')])
             IN  r.list = module_globals' /\ r.idx = Len(module_globals') - 1
        /\ Len(module_exports') = Len(module_exports) + 1 =>
             LET r == push_export(module_exports, module_functions',
                                  module_exports'[Len(module_exports')])
             IN  r.list = module_exports' /\ r.idx = Len(module_exports') - 1
      ]_vars

(***************************************************************************)
(* Code generator: variable statements and assignments                     *)
(***************************************************************************)
\* whether an instruction list holds a Noop, nested ones included
RECURSIVE HoldsNoop(_)
HoldsNoop(instrs) ==
    /\ instrs /= <<>>
    /\ \/ Head(instrs).op = "Noop"
       \/ HoldsNoop(Head(instrs).args)
       \/ HoldsNoop(Head(instrs).body)
       \/ HoldsNoop(Head(instrs).alt)
       \/ HoldsNoop(Tail(instrs))

\* the step of a variable statement: a symbol is defined while no visit is
\* entered or left
VariableStatementStep ==
    /\ gen_pc = "running" /\ gen_pc' = "running"
    /\ ctx' = ctx
    /\ wast_symbols' /= wast_symbols

\* C19: a variable statement over a name not yet defined is classified by the
\* wast depth alone: at depth 1 the name becomes a Global, one
\* GlobalType {name, I32, mutable, initializer e} is appended to
\* module.globals and nothing is emitted; at a greater depth the name becomes
\* a Local of the current scope, LocalSet(name, e) is appended to the current
\* instruction scope and module.globals is unchanged.  No Noop is left in the
\* module.
C19_VariableStatement ==
    [][ /\ VariableStatementStep =>
             LET depth == WastDepth(wast_symbols)
                 cur == wast_symbols[depth]
                 new == wast_symbols'[depth]
                 sym == new[Len(new)]
             IN  /\ WastDepth(wast_symbols') = depth
                 /\ SubSeq(wast_symbols', 1, depth - 1) = SubSeq(wast_symbols, 1, depth - 1)
                 /\ new = Append(cur, sym)
                 /\ WastLookup(wast_symbols, sym.name) = <<>>
                 /\ \E e \in GenValues :
                       LET x == gen_visit_single_expression(e, wast_symbols').isr
                       IN  IF depth = 1
                           THEN /\ sym.kind = "Global"
                                /\ module_globals'
                                      = Append(module_globals,
                                               [name |-> sym.name, ty |-> "I32",
                                                mutable |-> TRUE, initializer |-> x])
                                /\ scopes' = scopes
                           ELSE /\ sym.kind = "Local"
                                /\ module_globals' = module_globals
                                /\ Len(scopes') = Len(scopes)
                                /\ SubSeq(scopes', 1, Len(scopes) - 1)
                                      = SubSeq(scopes, 1, Len(scopes) - 1)
                                /\ Len(Top(scopes')) = Len(Top(scopes)) + 1
                                /\ SubSeq(Top(scopes'), 1, Len(Top(scopes))) = Top(scopes)
                                /\ Top(Top(scopes')).op = "LocalSet"
                                /\ Top(Top(scopes')).name = sym.name
                                /\ Top(Top(scopes')).args = <<x>>
                 /\ UNCHANGED <<module_types, module_functions, module_imports, module_exports>>
        /\ ~HoldsNoop(Flatten(scopes'))
        /\ \A n \in 1..Len(module_globals') : ~HoldsNoop(<<module_globals'[n].initializer>>)
        /\ \A n \in 1..Len(module_functions') : ~HoldsNoop(module_functions'[n].instructions)
      ]_vars

\* a program with the global x and a function with a local has been generated
C19_Witness ==
    /\ gen_pc = "done"
    /\ Len(module_globals) = 1
    /\ module_globals[1].name = "x"
    /\ \E n \in 1..Len(module_functions) :
          LET is == module_functions[n].instructions
          IN  /\ is[1] = Local("a", "I32")
              /\ is[2].op = "Block"
              /\ is[2].body /= <<>>
              /\ is[2].body[1].op = "LocalSet"

\* C20: an assignment to an identifier yields GlobalSet(name, rhs) exactly
\* when the name is defined in the outermost wast scope and LocalSet(name, rhs)
\* otherwise; an assignment to a[i] yields I32Store(Call("arrayAt", [a, i]), rhs);
\* the assignment defines no symbol of its own, and the statement holding it
\* adds one instruction to the instruction scope
C20_AssignmentTarget ==
    [][ gen_pc' = "running" =>
           /\ \A e \in AssignmentExprs :
                 LET w == wast_symbols'
                     left == e.args[1]
                     r == gen_visit_single_expression(e, w)
                     rhs == gen_visit_single_expression(e.args[2], w)
                 IN  /\ left.kind = "Identifier" =>
                           /\ r.ok
                           /\ r.isr.op = (IF ScopeLookup(w[1], left.name) /= <<>>
                                          THEN "GlobalSet" ELSE "LocalSet")
                           /\ r.isr.name = left.name
                           /\ r.isr.args = <<rhs.isr>>
                           /\ r.wast = rhs.wast
                     /\ left.kind = "MemberIndex" =>
                           /\ r.ok
                           /\ r.isr.op = "I32Store"
                           /\ r.isr.args
                                 = << Call("arrayAt",
                                           << gen_visit_single_expression(left.args[1], w).isr,
                                              gen_visit_single_expression(left.args[2], w).isr >>),
                                      rhs.isr >>
                           /\ r.wast = rhs.wast
           /\ (gen_pc = "running" /\ ctx' = ctx /\ scopes' /= scopes) =>
                 /\ Len(scopes') = Len(scopes)
                 /\ Top(scopes') = Append(Top(scopes), Top(Top(scopes')))
      ]_vars

\* g assigns to x, declared at the top level: GlobalSet("x", I32Const(1))
C20_Witness ==
    /\ gen_pc = "done"
    /\ Len(module_globals) = 1
    /\ \E n \in 1..Len(module_functions) :
          LET is == module_functions[n].instructions
              body == is[LeadingLocals(is) + 1].body
          IN  /\ Len(body) = 1
              /\ body[1].op = "GlobalSet"
              /\ body[1].name = "x"
              /\ body[1].args = <<I32Const(1)>>

(***************************************************************************)
(* Code generator: while statements                                        *)
(***************************************************************************)
\* the step in which a visit_while_iteration_element returns
WhileReturns ==
    /\ ctx /= <<>>
    /\ Top(ctx).kind = "while"
    /\ ctx' = Pop(ctx)

\* C21: a while statement adds exactly one instruction to the caller's
\* instruction scope, Loop(L, [If(cond, body ++ [BrLoop(L)], [])]): the BrLoop
\* is the last instruction of the then-list and carries the label L of the
\* Loop, the loops of the body carry labels greater than L, and no
\* instruction of the body is left in the caller's scope
C21_WhileShape ==
    [][ WhileReturns =>
           LET m == Len(scopes) - 2
               L == Top(ctx).label
               body == Top(scopes)
               new == scopes'[m][Len(scopes'[m])]
               then == new.body[1].body
           IN  /\ Len(scopes') = m
               /\ SubSeq(scopes', 1, m - 1) = SubSeq(scopes, 1, m - 1)
               /\ scopes'[m] = Append(scopes[m], new)
               /\ new.op = "Loop" /\ new.value = L
               /\ Len(new.body) = 1
               /\ new.body[1].op = "If"
               /\ new.body[1].args = <<Top(ctx).cond>>
               /\ new.body[1].alt = <<>>
               /\ Len(then) = Len(body) + 1
               /\ SubSeq(then, 1, Len(body)) = body
               /\ then[Len(then)].op = "BrLoop"
               /\ then[Len(then)].value = L
               /\ \A k \in 1..Len(LoopLabelsIn(body)) : LoopLabelsIn(body)[k] > L
      ]_vars

\* a function whose while statement holds a while statement has been generated
C21_Witness ==
    \E n \in 1..Len(module_functions) :
       LET is == module_functions[n].instructions
           body == is[LeadingLocals(is) + 1].body
       IN  /\ is[LeadingLocals(is) + 1].op = "Block"
           /\ Len(body) = 1
           /\ body[1].op = "Loop"
           /\ body[1].body[1].op = "If"
           /\ Len(body[1].body[1].body) = 2
           /\ body[1].body[1].body[1].op = "Loop"
           /\ body[1].body[1].body[1].value > body[1].value

(***************************************************************************)
(* Programs made of function declarations of every kind (plain, exported,  *)
(* wast, native, nested in other function bodies) and return statements    *)
(***************************************************************************)
ModuleSignatures ==
    { [params |-> <<>>, returns |-> "None"], [params |-> <<ParamA>>, returns |-> "I32"] }

AnnotationText(annotation) ==
    CASE annotation = "wast" -> "(nop)" [] annotation = "native" -> "env" [] OTHER -> ""

ModuleDecls(n, annotations) ==
    { Decl(FuncName(n), s.params, s.returns, export, a, AnnotationText(a)) :
         s \in ModuleSignatures, export \in BOOLEAN, a \in annotations }

ModuleNext ==
    \/ visit_program_enter
    \/ visit_program_exit
    \/ \E d \in ModuleDecls(Len(declared), {"none"}) :
          Len(declared) < MaxDecls /\ visit_function_declaration_enter(d)
    \/ visit_function_declaration_exit
    \/ \E d \in ModuleDecls(Len(declared), {"wast", "native"}) :
          Len(declared) < MaxDecls /\ visit_annotated_function_declaration(d)
    \/ visited < MaxVisited /\ visit_return_statement(LitOne)

SpecModule == GenInit /\ [][ModuleNext]_vars

(***************************************************************************)
(* Code generator: annotated function declarations                         *)
(***************************************************************************)
\* the step of a function declaration that carries wast("..") or native("..")
AnnotatedDeclarationStep ==
    /\ Len(declared') = Len(declared) + 1
    /\ declared'[Len(declared')].annotation \in {"wast", "native"}

I32InstructionNamed(op) ==
    CASE op = "Plus" -> "I32Add" [] op = "Minus" -> "I32Sub" [] op = "Mult" -> "I32Mul"
      [] op = "Div" -> "I32Div" [] op = "Equal" -> "I32Eq" [] op = "NotEqual" -> "I32Neq"
      [] op = "And" -> "I32And" [] op = "Or" -> "I32Or" [] op = "Greater" -> "I32Gt"
      [] op = "GreaterEqual" -> "I32Ge" [] op = "Less" -> "I32Lt" [] op = "LessEqual" -> "I32Le"
      [] OTHER -> "I32"

\* whether the visit of a binary expression with an I32 left operand returns
\* the instruction named by the operator over the operands' instructions
I32BinaryAsNamed(op, right, w) ==
    LET e == BinaryExp(op, IdentA, right, "i32")
        r == gen_visit_single_expression(e, w)
        lhs == gen_visit_single_expression(IdentA, w)
        rhs == gen_visit_single_expression(right, lhs.wast)
    IN  /\ r.ok
        /\ r.isr.op = I32InstructionNamed(op)
        /\ r.isr.args = <<lhs.isr, rhs.isr>>

ReadOf(n, w) == gen_visit_single_expression(IdentifierExp(n, "i32"), w).isr
WriteOf(n, w) ==
    gen_visit_single_expression(AssignmentExp(IdentifierExp(n, "i32"), LitOne), w).isr

\* C24: wherever an expression is visited, a name that resolves by outward
\* lookup to a Param or Local is read with LocalGet and written with LocalSet,
\* and a name that resolves to a Global is read with GlobalGet and written
\* with GlobalSet: also at the top level, and in a function whose parameter
\* has the name of a global
C24_StorageClassMatchesSymbol ==
    gen_pc = "running" =>
       \A n \in VarNames :
          LET sym == WastLookup(wast_symbols, n)
          IN  sym /= <<>> =>
                 IF sym[1].kind = "Global"
                 THEN /\ ReadOf(n, wast_symbols).op = "GlobalGet"
                      /\ WriteOf(n, wast_symbols).op = "GlobalSet"
                 ELSE /\ ReadOf(n, wast_symbols).op = "LocalGet"
                      /\ WriteOf(n, wast_symbols).op = "LocalSet"

(***************************************************************************)
(* Code generator: variable statements over a name already defined         *)
(***************************************************************************)
\* the names defined anywhere in a wast symbol table
NamesDefined(w) == UNION { { w[k][i].name : i \in 1..Len(w[k]) } : k \in 1..Len(w) }

\* C25: a variable statement whose target resolves by outward lookup (a
\* parameter of the enclosing function, an earlier let of the function, a
\* global) aborts code generation: no symbol is redefined, no GlobalType is
\* appended, no LocalSet is emitted.  So a symbol is only ever added under a
\* name that no scope of the table holds, and module.globals never holds two
\* entries of one name.
C25_RedeclarationAborts ==
    [][ /\ \A n \in VarNames, e \in GenValues :
              (WastLookup(wast_symbols, n) /= <<>> /\ visit_variable_statement(n, "I32", e))
                 => /\ gen_pc' = "panicked"
                    /\ UNCHANGED <<wast_symbols, module_globals, scopes>>
        /\ (gen_pc' = "running" /\ WastDepth(wast_symbols') = WastDepth(wast_symbols)) =>
              \A k \in 1..Len(wast_symbols) :
                 /\ Len(wast_symbols'[k]) >= Len(wast_symbols[k])
                 /\ SubSeq(wast_symbols'[k], 1, Len(wast_symbols[k])) = wast_symbols[k]
                 /\ \A i \in (Len(wast_symbols[k]) + 1)..Len(wast_symbols'[k]) :
                       wast_symbols'[k][i].name \notin NamesDefined(wast_symbols)
        /\ \A i, j \in 1..Len(module_globals') :
              i /= j => module_globals'[i].name /= module_globals'[j].name
      ]_vars

\* code generation was aborted in the body of g(a), where the global x, the
\* parameter a and a local are resolvable and no statement but a variable
\* statement can abort
C25_Witness ==
    /\ gen_pc = "panicked"
    /\ ctx /= <<>>
    /\ Top(ctx).kind = "function"
    /\ Top(ctx).decl.name = "g"
    /\ Len(module_globals) = 1
    /\ WastDepth(wast_symbols) = 2
    /\ Len(wast_symbols[2]) = 1
    /\ Len(Top(scopes)) = 0

(***************************************************************************)
(* Code generator: push_instruction and the instruction-scope stack        *)
(***************************************************************************)
\* a step of a statement visit that ends by calling push_instruction: an
\* expression statement, a return statement, the end of an if or of a while
PushingStatementStep ==
    \/ \E e \in GenValues : visit_expression_statement(e)
    \/ \E e \in GenValues : visit_return_statement(e)
    \/ visit_if_statement_exit
    \/ visit_while_iteration_element_exit

\* C26: whenever push_instruction runs the instruction-scope stack is not
\* empty, so the statement visits that end with it never abort there: also
\* for an expression, return, if or while statement at the top level
C26_PushInstructionHasScope ==
    [][ PushingStatementStep => gen_pc' = "running" /\ scopes' /= <<>> ]_vars

(***************************************************************************)
(* Code generator: indices stored in the module                            *)
(***************************************************************************)
\* whether list is an initial part of list2
IsPrefix(list, list2) ==
    /\ Len(list) <= Len(list2)
    /\ SubSeq(list2, 1, Len(list)) = list

\* whether the 0-based index idx names the entry of module.types equal to the
\* (params, ret) signature of the declaration called name
TypeIndexValid(idx, name, types) ==
    /\ idx \in 0..(Len(types) - 1)
    /\ \E k \in 1..Len(declared') :
          /\ declared'[k].name = name
          /\ types[idx + 1] = WastFunctionType(declared'[k].params, declared'[k].returns)

\* C27: after any sequence of function declarations every index stored in the
\* module is a valid reference: the type_idx of each Function and
\* FunctionImport is below len(module.types) and names the function's
\* (params, ret) signature, the function_idx of each FunctionExport is below
\* len(module.functions) and names the function of the export's name; the
\* lists only grow, so the indices stay valid
C27_IndicesValid ==
    [][ /\ \A n \in 1..Len(module_functions') :
              TypeIndexValid(module_functions'[n].type_idx, module_functions'[n].name,
                             module_types')
        /\ \A n \in 1..Len(module_imports') :
              TypeIndexValid(module_imports'[n].type_idx, module_imports'[n].name,
                             module_types')
        /\ \A n \in 1..Len(module_exports') :
              /\ module_exports'[n].function_idx \in 0..(Len(module_functions') - 1)
              /\ module_functions'[module_exports'[n].function_idx + 1].name
                    = module_exports'[n].name
        /\ IsPrefix(module_types, module_types')
        /\ IsPrefix(module_functions, module_functions')
        /\ IsPrefix(module_imports, module_imports')
        /\ IsPrefix(module_exports, module_exports')
      ]_vars

\* an exported function holding an exported function and a native declaration
\* has been generated: the inner function has index 0, the outer one index 1
C27_Witness ==
    /\ gen_pc = "done"
    /\ Len(module_functions) = 2
    /\ module_functions[1].name = "f1"
    /\ module_functions[2].name = "f0"
    /\ Len(module_exports) = 2
    /\ module_exports[2].function_idx = 1
    /\ Len(module_imports) = 1
    /\ Len(module_types) = 2
    /\ module_functions[1].type_idx /= module_functions[2].type_idx

(***************************************************************************)
(* Serializer: sections built from lists, parameter lists and names whose  *)
(* lengths lie on both sides of the range of one byte                      *)
(***************************************************************************)
MaxEntries == 258   \* functions in a list, parameters of a function, bytes of a name

\* lengths that fit one byte with room to spare, and lengths around 255 / 256
Lengths == {0, 1, 2} \cup (253..MaxEntries)

\* a function with p parameters and a name of m bytes
SizedFunction(p, m, ret) ==
    [name |-> [i \in 1..m |-> 97], export |-> TRUE, params |-> [i \in 1..p |-> "I32"],
     ret |-> ret]

\* lists of n equal functions, one of the three lengths being large at a time
SizedFunctionLists ==
    { [i \in 1..n |-> SizedFunction(0, 0, ret)] : n \in Lengths, ret \in {"Void", "I32"} }
    \cup { [i \in 1..n |-> SizedFunction(p, 0, ret)] :
              n \in {1, 2}, p \in Lengths, ret \in {"Void", "I32"} }
    \cup { [i \in 1..n |-> SizedFunction(0, m, ret)] :
              n \in {1, 2}, m \in Lengths, ret \in {"Void", "I32"} }

SizedInit ==
    /\ functions \in SizedFunctionLists
    /\ segments = <<>> /\ sections_out = <<>> /\ out = <<>>
    /\ ser_pc = "build"
    /\ FtIdle /\ LowIdle /\ GenIdle

\* a section is built from the list and serialized
SerializeSection(kind) ==
    /\ ser_pc = "build"
    /\ segments' = <<NewSection(kind, functions)>>
    /\ sections_out' = <<SectionSerialize(NewSection(kind, functions))>>
    /\ ser_pc' = "done"
    /\ UNCHANGED <<ft, ft_out, ft_pc, functions, out, low_vars, gen_vars>>

SizedNext == \E kind \in SectionKinds : SerializeSection(kind)
SpecSized == SizedInit /\ [][SizedNext]_vars

\* C28: in the Type, Function and Export serializers every length is one
\* byte, written by truncation: the size byte is (content length + 1) mod 256,
\* the count byte the number of entries mod 256, the parameter-count and
\* name-length bytes their value mod 256; serialize returns bytes whatever
\* the size of its input, so for content of 255 bytes or more the size byte
\* differs from the number of bytes that follow it (and equals it below)
C28_LengthsTruncated ==
    (ser_pc = "done" /\ segments[1].kind /= "Code") =>
       LET bytes == sections_out[1]
           content == Len(bytes) - 3
       IN  /\ Len(sections_out) = 1
           /\ content >= 0
           /\ bytes[2] = (content + 1) % 256
           /\ bytes[3] = Len(functions) % 256
           /\ \A k \in 1..Len(functions) :
                 /\ FunctionTypeSerialize(functions[k])[2] = Len(functions[k].params) % 256
                 /\ ExportDescription(k - 1, functions[k])[1] = Len(functions[k].name) % 256
           /\ segments[1].kind = "Type" =>
                 content = Len(Flatten([k \in 1..Len(functions) |->
                                           FunctionTypeSerialize(functions[k])]))
           /\ segments[1].kind = "Function" => content = Len(functions)
           /\ segments[1].kind = "Export" =>
                 content = Len(Flatten([k \in 1..Len(functions) |->
                                           ExportDescription(k - 1, functions[k])]))
           /\ IF content >= 255
              THEN bytes[2] /= Len(bytes) - 2
              ELSE bytes[2] = Len(bytes) - 2

\* a function section of 256 functions was serialized: 257 bytes follow the
\* size byte, which is 1, and the count byte is 0
C28_Witness ==
    /\ ser_pc = "done"
    /\ segments[1].kind = "Function"
    /\ Len(functions) = 256
    /\ sections_out[1][2] = 1
    /\ sections_out[1][3] = 0
    /\ Len(sections_out[1]) = 259

(***************************************************************************)
(* Serializer: the export section and the export flag                      *)
(***************************************************************************)
\* the function lists that differ from fs in export flags, parameters and
\* return types only
RECURSIVE SameNamesAs(_)
SameNamesAs(fs) ==
    IF fs = <<>> THEN { <<>> }
    ELSE { <<g>> \o rest : g \in { f \in SectionFunctions : f.name = Head(fs).name },
                            rest \in SameNamesAs(Tail(fs)) }

\* the number of functions of a list that are marked export
RECURSIVE MarkedExport(_)
MarkedExport(fs) ==
    IF fs = <<>> THEN 0 ELSE (IF Head(fs).export THEN 1 ELSE 0) + MarkedExport(Tail(fs))

\* C29: the bytes ExportSection::serialize returns do not depend on the export
\* flags of the functions (nor on their parameters and return types): lists
\* that differ only in these serialize to the same bytes, every function of
\* the list has its export entry, and the count byte is the number of
\* functions, not the number of functions marked export
C29_ExportFlagIgnored ==
    ser_pc = "done" =>
       \A i \in 1..Len(segments) :
          segments[i].kind = "Export" =>
             LET fs == segments[i].functions
                 bytes == sections_out[i]
             IN  /\ \A gs \in SameNamesAs(fs) : ExportSectionSerialize(gs) = bytes
                 /\ bytes[3] = Len(fs)
                 /\ Len(bytes) = ExportEntryOffset(fs, Len(fs))
                 /\ \A k \in 1..Len(fs) :
                       LET off == ExportEntryOffset(fs, k - 1)
                       IN  /\ bytes[off + 1] = Len(fs[k].name)
                           /\ SubSeq(bytes, off + 2, off + 1 + Len(fs[k].name)) = fs[k].name
                           /\ bytes[off + Len(fs[k].name) + 3] = k - 1

\* an export section was serialized from two functions of which one is marked
\* export: the count byte is 2
C29_Witness ==
    /\ ser_pc = "done"
    /\ Len(functions) = 2
    /\ MarkedExport(functions) = 1
    /\ ~functions[1].export
    /\ \E i \in 1..Len(segments) :
          /\ segments[i].kind = "Export"
          /\ sections_out[i][3] = 2

(***************************************************************************)
(* Flat code generator: src/jswt-compiler/src/codegen/mod.rs               *)
(*                                                                         *)
(* The visitor returns nothing: every visit pushes its instructions into   *)
(* the current instruction scope.  Instructions carry no operands; an If   *)
(* holds its two lists, a Call and a LocalSet hold the list of the scope   *)
(* that was popped for them (in body).  The generator state is held in the *)
(* variables of the code generator; semantic_depth and label_counter are   *)
(* not used.                                                               *)
(***************************************************************************)
FlatOp(op) == Instr(op, "", "", 0, <<>>, <<>>, <<>>)
FlatReturn == Instr("Return", "", "", 0, <<>>, <<>>, <<>>)
FlatIf(cons, alt) == Instr("If", "", "", 0, <<>>, cons, alt)
FlatCall(name, instructions) == Instr("Call", name, "", 0, <<>>, instructions, <<>>)
FlatLocalSet(name, instructions) == Instr("LocalSet", name, "", 0, <<>>, instructions, <<>>)

\* the instructions a visit pushed into the current scope, and whether it returned
FlatResult(isrs, ok) == [isrs |-> isrs, ok |-> ok]

RECURSIVE flat_visit_single_expression(_, _)
RECURSIVE FlatVisitArguments(_, _)

\* the loop over the arguments of a call
FlatVisitArguments(es, w) ==
    IF es = <<>> THEN FlatResult(<<>>, TRUE)
    ELSE LET first == flat_visit_single_expression(Head(es), w)
             rest == FlatVisitArguments(Tail(es), w)
         IN  FlatResult(first.isrs \o rest.isrs, first.ok /\ rest.ok)

\* the match of CodeGenerator::visit_binary_expression; "todo" is todo!()
FlatBinaryOp(op) ==
    CASE op = "Plus" -> "I32Add" [] op = "Minus" -> "I32Sub" [] op = "Mult" -> "I32Mul"
      [] op = "Equal" -> "I32Eq" [] op = "NotEqual" -> "I32Neq"
      [] op = "And" -> "I32And" [] op = "Or" -> "I32Or" [] op = "Greater" -> "I32Gt"
      [] op = "GreaterEqual" -> "I32Ge" [] op = "Less" -> "I32Lt" [] op = "LessEqual" -> "I32Le"
      [] OTHER -> "todo"

\* Mutant: the operator instruction is pushed before the operands are visited
flat_visit_binary_expression_prefix(node, w) ==
    LET left == flat_visit_single_expression(node.args[1], w)
        right == flat_visit_single_expression(node.args[2], w)
    IN  IF FlatBinaryOp(node.op) = "todo"
        THEN FlatResult(left.isrs \o right.isrs, FALSE)
        ELSE FlatResult(<<FlatOp(FlatBinaryOp(node.op))>> \o left.isrs \o right.isrs,
                        left.ok /\ right.ok)

\* CodeGenerator::visit_binary_expression
flat_visit_binary_expression(node, w) ==
    LET left == flat_visit_single_expression(node.args[1], w)
        right == flat_visit_single_expression(node.args[2], w)
    IN  IF FlatBinaryOp(node.op) = "todo"
        THEN FlatResult(left.isrs \o right.isrs, FALSE)
        ELSE FlatResult(left.isrs \o right.isrs \o <<FlatOp(FlatBinaryOp(node.op))>>,
                        left.ok /\ right.ok)

\* CodeGenerator::visit_identifier_expression
flat_visit_identifier_expression(node, w) ==
    IF WastLookupCurrent(w, node.name) /= <<>>
    THEN FlatResult(<<LocalGet(node.name)>>, TRUE)
    ELSE FlatResult(<<GlobalGet(node.name)>>, TRUE)

\* CodeGenerator::visit_argument_expression, the callee being an identifier
flat_visit_argument_expression(node, w) ==
    LET args == FlatVisitArguments(node.args, w)
    IN  FlatResult(<<FlatCall(node.name, args.isrs)>>, args.ok)

\* CodeGenerator::visit_literal
flat_visit_literal(node) ==
    CASE node.ty = "string" -> FlatResult(<<>>, FALSE)
      [] node.ty = "bool" -> FlatResult(<<I32Const(IF node.value /= 0 THEN 1 ELSE 0)>>, TRUE)
      [] OTHER -> FlatResult(<<I32Const(node.value)>>, TRUE)

\* CodeGenerator::visit_single_expression
flat_visit_single_expression(node, w) ==
    CASE node.kind = "Binary" -> flat_visit_binary_expression(node, w)
      [] node.kind = "Arguments" -> flat_visit_argument_expression(node, w)
      [] node.kind = "Identifier" -> flat_visit_identifier_expression(node, w)
      [] node.kind = "Literal" -> flat_visit_literal(node)

\* push_instruction for each instruction of a visit, in order
PushAll(sc, isrs) == [sc EXCEPT ![Len(sc)] = @ \o isrs]

\* CodeGenerator::default
FlatInit ==
    /\ module_types = <<>> /\ module_functions = <<>> /\ module_imports = <<>>
    /\ module_globals = <<>> /\ module_exports = <<>>
    /\ scopes = <<>>
    /\ wast_symbols = WastNew
    /\ semantic_depth = 0
    /\ label_counter = 0
    /\ ctx = <<>> /\ visited = 0 /\ declared = <<>>
    /\ gen_pc = "new"
    /\ FtIdle /\ SerIdle /\ LowIdle

\* generate_module (cfg(test)) -> visit_program, up to the source elements
flat_visit_program_enter ==
    /\ gen_pc = "new"
    /\ wast_symbols' = WastPushScope(wast_symbols)
    /\ gen_pc' = "running"
    /\ UNCHANGED <<module_types, module_functions, module_imports, module_globals,
                   module_exports, scopes, semantic_depth, label_counter, ctx, visited,
                   declared, others>>

\* visit_program after the source elements
flat_visit_program_exit ==
    /\ gen_pc = "running"
    /\ ctx = <<>>
    /\ IF WastDepth(wast_symbols) /= 1
       THEN Panic
       ELSE /\ wast_symbols' = WastPopScope(wast_symbols)
            /\ gen_pc' = "done"
            /\ UNCHANGED <<module_types, module_functions, module_imports, module_globals,
                           module_exports, scopes, semantic_depth, label_counter, ctx,
                           visited, declared>>
    /\ UNCHANGED others

\* every parameter is defined as Param(name, I32)
RECURSIVE FlatDefineParams(_, _)
FlatDefineParams(w, params) ==
    IF params = <<>> THEN w
    ELSE FlatDefineParams(WastDefine(w, WastSymbol(Head(params).name, "Param", 0, "I32")),
                          Tail(params))

\* visit_function_declaration up to the body; an annotation other than wast is todo!()
flat_visit_function_declaration_enter(d) ==
    /\ gen_pc = "running"
    /\ AtSourceElements
    /\ IF d.annotation \notin {"none", "wast"}
       THEN Panic
       ELSE LET w == FlatDefineParams(WastPushScope(wast_symbols), d.params)
                type_params == [i \in 1..Len(d.params) |->
                                  [name |-> d.params[i].name, ty |-> "I32"]]
                ret == IF d.returns = "None" THEN "None" ELSE "I32"
                pt == push_type(module_types, WastFunctionType(type_params, ret))
                sc == push_instruction_scope(scopes)
            IN  /\ wast_symbols' = w
                /\ module_types' = pt.list
                /\ scopes' = IF d.annotation = "wast"
                             THEN push_instruction(sc, RawWast(d.text)) ELSE sc
                /\ ctx' = Append(ctx, Frame("function", d, pt.idx, Noop, <<>>, 0))
                /\ visited' = visited + 1
                /\ declared' = Append(declared, d)
                /\ UNCHANGED <<module_functions, module_imports, module_globals,
                               module_exports, semantic_depth, label_counter, gen_pc>>
    /\ UNCHANGED others

\* visit_function_declaration after the body
flat_visit_function_declaration_exit ==
    /\ gen_pc = "running"
    /\ ctx /= <<>>
    /\ Top(ctx).kind = "function"
    /\ LET d == Top(ctx).decl
           instructions == InsertLocals(Top(scopes), WastSymbolsInCurrentScope(wast_symbols))
           pf == push_function(module_functions,
                               [name |-> d.name, type_idx |-> Top(ctx).type_idx,
                                instructions |-> instructions])
           pe == push_export(module_exports, pf.list,
                             [function_idx |-> pf.idx, name |-> d.name])
       IN  /\ scopes' = pop_instruction_scope(scopes)
           /\ module_functions' = pf.list
           /\ module_exports' = IF d.export THEN pe.list ELSE module_exports
           /\ wast_symbols' = WastPopScope(wast_symbols)
    /\ ctx' = Pop(ctx)
    /\ UNCHANGED <<module_types, module_imports, module_globals, semantic_depth,
                   label_counter, visited, declared, gen_pc, others>>

\* visit_variable_statement, with visit_assignable_element
flat_visit_variable_statement(name, e) ==
    /\ gen_pc = "running"
    /\ LET w == IF WastLookup(wast_symbols, name) /= <<>> THEN wast_symbols
                ELSE WastDefine(wast_symbols,
                                WastSymbol(name,
                                           IF WastDepth(wast_symbols) = 1 THEN "Global"
                                           ELSE "Local", 0, "I32"))
           sym == WastLookup(w, name)[1]
           initializer == flat_visit_single_expression(e, w)
           pg == push_global(module_globals,
                             [name |-> name, ty |-> "I32", mutable |-> TRUE,
                              initializer |-> initializer.isrs])
       IN  IF ~initializer.ok \/ (sym.kind /= "Global" /\ scopes = <<>>)
           THEN Panic
           ELSE /\ wast_symbols' = w
                /\ module_globals' = IF sym.kind = "Global" THEN pg.list ELSE module_globals
                /\ scopes' = IF sym.kind = "Global" THEN scopes
                             ELSE push_instruction(scopes,
                                                   FlatLocalSet(name, initializer.isrs))
                /\ visited' = visited + 1
                /\ UNCHANGED <<module_types, module_functions, module_imports,
                               module_exports, semantic_depth, label_counter, ctx, declared,
                               gen_pc>>
    /\ UNCHANGED others

\* visit_expression_statement
flat_visit_expression_statement(e) ==
    /\ gen_pc = "running"
    /\ LET exp == flat_visit_single_expression(e, wast_symbols)
       IN  IF ~exp.ok \/ scopes = <<>>
           THEN Panic
           ELSE /\ scopes' = PushAll(scopes, exp.isrs)
                /\ visited' = visited + 1
                /\ UNCHANGED <<module_types, module_functions, module_imports, module_globals,
                               module_exports, wast_symbols, semantic_depth, label_counter,
                               ctx, declared, gen_pc>>
    /\ UNCHANGED others

\* visit_return_statement
flat_visit_return_statement(e) ==
    /\ gen_pc = "running"
    /\ LET exp == flat_visit_single_expression(e, wast_symbols)
       IN  IF ~exp.ok \/ scopes = <<>>
           THEN Panic
           ELSE /\ scopes' = push_instruction(PushAll(scopes, exp.isrs), FlatReturn)
                /\ visited' = visited + 1
                /\ UNCHANGED <<module_types, module_functions, module_imports, module_globals,
                               module_exports, wast_symbols, semantic_depth, label_counter,
                               ctx, declared, gen_pc>>
    /\ UNCHANGED others

\* visit_if_statement up to the visit of the consequence
flat_visit_if_statement_enter(e) ==
    /\ gen_pc = "running"
    /\ LET cond == flat_visit_single_expression(e, wast_symbols)
       IN  IF ~cond.ok \/ scopes = <<>>
           THEN Panic
           ELSE /\ scopes' = push_instruction_scope(PushAll(scopes, cond.isrs))
                /\ ctx' = Append(ctx, Frame("then", NoDecl, 0, Noop, <<>>, 0))
                /\ visited' = visited + 1
                /\ UNCHANGED <<module_types, module_functions, module_imports, module_globals,
                               module_exports, wast_symbols, semantic_depth, label_counter,
                               declared, gen_pc>>
    /\ UNCHANGED others

\* visit_if_statement between the consequence and a present alternative
flat_visit_if_statement_else ==
    /\ gen_pc = "running"
    /\ ctx /= <<>>
    /\ Top(ctx).kind = "then"
    /\ LET cons == Top(scopes)
       IN  /\ scopes' = push_instruction_scope(pop_instruction_scope(scopes))
           /\ ctx' = Append(Pop(ctx), Frame("else", NoDecl, 0, Noop, cons, 0))
    /\ UNCHANGED <<module_types, module_functions, module_imports, module_globals,
                   module_exports, wast_symbols, semantic_depth, label_counter, visited,
                   declared, gen_pc, others>>

\* visit_if_statement after the alternative (or after the consequence when there is none)
flat_visit_if_statement_exit ==
    /\ gen_pc = "running"
    /\ ctx /= <<>>
    /\ Top(ctx).kind \in {"then", "else"}
    /\ LET cons == IF Top(ctx).kind = "then" THEN Top(scopes) ELSE Top(ctx).cons
           alt == IF Top(ctx).kind = "then" THEN <<>> ELSE Top(scopes)
           sc == pop_instruction_scope(scopes)
       IN  /\ scopes' = push_instruction(sc, FlatIf(cons, alt))
           /\ ctx' = Pop(ctx)
    /\ UNCHANGED <<module_types, module_functions, module_imports, module_globals,
                   module_exports, wast_symbols, semantic_depth, label_counter, visited,
                   declared, gen_pc, others>>

(***************************************************************************)
(* Programs handed to the flat code generator                              *)
(***************************************************************************)
OnePlusTwo == BinaryExp("Plus", LitOne, LitTwo, "i32")
FlatNestedLeft == BinaryExp("Mult", BinaryExp("Plus", IdentA, LitOne, "i32"), IdentX, "i32")
FlatNestedRight == BinaryExp("Less", IdentA, BinaryExp("Minus", IdentX, LitTwo, "i32"), "i32")
FlatCallExpr == ArgumentsExp("f", <<IdentA, FlatNestedRight>>, "i32")
FlatDivision == BinaryExp("Div", LitOne, LitTwo, "i32")

FlatExprs == { FlatDivision }
FlatReturnValues == { OnePlusTwo }
FlatConds == { IdentA, FlatCallExpr }
FlatInitializers == { FlatNestedLeft }

FlatDecls ==
    { Decl("test", <<>>, "None", FALSE, "none", ""),
      Decl("g", <<ParamA>>, "I32", TRUE, "none", ""),
      Decl("h", <<>>, "None", FALSE, "wast", "(nop)") }

FlatNext ==
    \/ flat_visit_program_enter
    \/ flat_visit_program_exit
    \/ \E d \in FlatDecls : visited < MaxVisited /\ flat_visit_function_declaration_enter(d)
    \/ flat_visit_function_declaration_exit
    \/ \E e \in FlatInitializers : visited < MaxVisited /\ flat_visit_variable_statement("x", e)
    \/ \E e \in FlatExprs : visited < MaxVisited /\ flat_visit_expression_statement(e)
    \/ \E e \in FlatReturnValues : visited < MaxVisited /\ flat_visit_return_statement(e)
    \/ \E e \in FlatConds : visited < MaxVisited /\ flat_visit_if_statement_enter(e)
    \/ flat_visit_if_statement_else
    \/ flat_visit_if_statement_exit

SpecFlat == FlatInit /\ [][FlatNext]_vars

(***************************************************************************)
(* Flat code generator: order of emission                                  *)
(***************************************************************************)
\* the binary expressions of the programs, operands included
FlatBinaryExprs ==
    LET all == FlatExprs \cup FlatReturnValues \cup FlatConds \cup FlatInitializers
    IN  { e \in all \cup UNION { { e.args[i] : i \in 1..Len(e.args) } : e \in all } :
             e.kind = "Binary" }

\* the number of Local symbols of a scope
RECURSIVE LocalSymbols(_)
LocalSymbols(scope) ==
    IF scope = <<>> THEN 0
    ELSE (IF Head(scope).kind = "Local" THEN 1 ELSE 0) + LocalSymbols(Tail(scope))

\* C30: the flat generator emits in postfix order into the current scope: a
\* binary expression gives the instructions of the left operand, those of
\* the right operand, then the one operator instruction; a return statement
\* the instructions of the expression, then Return; an if statement the
\* instructions of the condition in the enclosing scope, then one
\* If(cons, alt) after them; a function has its Local declarations followed
\* by exactly the instructions of its body, so without locals exactly those
\* (none for an empty body)
C30_PostfixOrder ==
    [][ gen_pc' = "running" =>
           /\ \A e \in FlatBinaryExprs :
                 LET r == flat_visit_single_expression(e, wast_symbols')
                     left == flat_visit_single_expression(e.args[1], wast_symbols')
                     right == flat_visit_single_expression(e.args[2], wast_symbols')
                     n == Len(left.isrs) + Len(right.isrs)
                 IN  r.ok =>
                        /\ Len(r.isrs) = n + 1
                        /\ SubSeq(r.isrs, 1, Len(left.isrs)) = left.isrs
                        /\ SubSeq(r.isrs, Len(left.isrs) + 1, n) = right.isrs
                        /\ r.isrs[n + 1].op = FlatBinaryOp(e.op)
                        /\ r.isrs[n + 1].args = <<>> /\ r.isrs[n + 1].body = <<>>
           /\ (gen_pc = "running" /\ ctx' = ctx /\ scopes' /= scopes) =>
                 /\ Len(scopes') = Len(scopes)
                 /\ SubSeq(scopes', 1, Len(scopes) - 1) = SubSeq(scopes, 1, Len(scopes) - 1)
                 /\ IsPrefix(Top(scopes), Top(scopes'))
                 /\ Top(Top(scopes')).op = "Return" =>
                       \E e \in FlatReturnValues :
                          Top(scopes')
                             = Top(scopes) \o flat_visit_single_expression(e, wast_symbols).isrs
                                  \o <<Top(Top(scopes'))>>
           /\ (Len(ctx') = Len(ctx) + 1 /\ Top(ctx').kind = "then") =>
                 \E e \in FlatConds :
                    LET cond == flat_visit_single_expression(e, wast_symbols).isrs
                    IN  /\ cond /= <<>>
                        /\ Len(scopes') = Len(scopes) + 1
                        /\ SubSeq(scopes', 1, Len(scopes) - 1)
                              = SubSeq(scopes, 1, Len(scopes) - 1)
                        /\ scopes'[Len(scopes)] = Top(scopes) \o cond
                        /\ Top(scopes') = <<>>
           /\ (ctx /= <<>> /\ Len(ctx') = Len(ctx) /\ ctx' /= ctx) =>
                 SubSeq(scopes', 1, Len(scopes) - 1) = SubSeq(scopes, 1, Len(scopes) - 1)
           /\ (ctx /= <<>> /\ ctx' = Pop(ctx) /\ Top(ctx).kind \in {"then", "else"}) =>
                 LET m == Len(scopes) - 1
                     new == Top(scopes'[m])
                 IN  /\ Len(scopes') = m
                     /\ SubSeq(scopes', 1, m - 1) = SubSeq(scopes, 1, m - 1)
                     /\ scopes'[m] = Append(scopes[m], new)
                     /\ new.op = "If" /\ new.args = <<>>
                     /\ IF Top(ctx).kind = "then"
                        THEN new.body = Top(scopes) /\ new.alt = <<>>
                        ELSE new.body = Top(ctx).cons /\ new.alt = Top(scopes)
           /\ (ctx /= <<>> /\ ctx' = Pop(ctx) /\ Top(ctx).kind = "function") =>
                 LET f == module_functions'[Len(module_functions')]
                     locals == LocalSymbols(WastSymbolsInCurrentScope(wast_symbols))
                 IN  /\ Len(module_functions') = Len(module_functions) + 1
                     /\ Len(f.instructions) = locals + Len(Top(scopes))
                     /\ \A i \in 1..locals : f.instructions[i].op = "Local"
                     /\ SubSeq(f.instructions, locals + 1, Len(f.instructions)) = Top(scopes)
                     /\ locals = 0 => f.instructions = Top(scopes)
      ]_vars

\* function g(a) { if (a) { return 1 + 2; } } has been generated
C30_Witness ==
    /\ gen_pc = "done"
    /\ Len(module_functions) = 1
    /\ LET is == module_functions[1].instructions
       IN  /\ Len(is) = 2
           /\ is[1].op = "LocalGet"
           /\ is[2].op = "If"
           /\ Len(is[2].body) = 4
           /\ is[2].body[1].op = "I32Const" /\ is[2].body[1].value = 1
           /\ is[2].body[2].op = "I32Const" /\ is[2].body[2].value = 2
           /\ is[2].body[3].op = "I32Add"
           /\ is[2].body[4].op = "Return"

=============================================================================
